---- MODULE Spec2Model ----
(***************************************************************************)
(* A state-machine model of the slime auto-battler (kjbrown-sandbox/       *)
(* gamble-gamble): the Bevy systems of src/src/*.rs that target, move,     *)
(* attack, stun, merge and kill units.                                     *)
(*                                                                         *)
(* World.  `world` is the entity store: one record per entity id, holding  *)
(* the components the systems query.  A component that is absent is a      *)
(* record with on = FALSE (or a FALSE flag); a despawned entity is Blank   *)
(* and its id is never reused (Bevy entity ids carry a generation).        *)
(*                                                                         *)
(* Time.  Every frame has delta 0.25 s (Bevy's default max_delta).  Timers *)
(* count frames: a timer of d ms finishes after TicksOf(d) frames.  With   *)
(* this delta every animation clip (0.1 s or 0.2 s per frame) advances     *)
(* exactly one frame per AnimationState::update.                           *)
(*                                                                         *)
(* Space.  Units stand on a line (y = 0).  A position is an integer in     *)
(* eighths of a world unit, so that a step of Speed * delta = 31.25 and    *)
(* the midpoint of two grid positions are integers.                        *)
(*                                                                         *)
(* Schedule.  One frame runs every system once.  The order of systems that *)
(* the plugins do not chain is not fixed by the code; `sched` selects one  *)
(* of the orders of Schedules, all of which respect the .chain() calls.    *)
(* Deferred commands of a system are applied when the system ends (the     *)
(* sync point Bevy inserts after a chained system with Commands).          *)
(***************************************************************************)
EXTENDS Integers, Sequences, FiniteSets, TLC

\* ---------------------------------------------------------------- bounds
PlayerNormal == 3      \* SaveData.normal_slimes of the model
LivePlayers  == 2      \* SaveData.normal_slimes of the loop without an end
SkirmishPlayers == 3   \* player units of the skirmish, at most
SkirmishTanks   == 1   \* SaveData.tanks of the skirmish, at most
SkirmishEnemies == 1   \* enemy normal slimes of the skirmish
PlayerTanks  == 0      \* SaveData.tanks of the model
EnemyNormal  == 0      \* enemy normal slimes of the model
EnemyTanks   == 1      \* enemy tanks of the model
MaxTicks     == 24     \* frames simulated
MaxKills     == 1      \* presses of the debug kill key
VfxFrames    == 3      \* frames of the one-shot IceImpact clip

\* ------------------------------------------------------ program constants
NormalHealth   == 10
TankHealth     == 20
MergedHealth   == 40
NormalDamage   == 2
MergedDamage   == 8
HitFrame       == 3
SampleSize     == 3
AttackFrames   == 5
IdleFrames     == 6
DeathFrames    == 6

Scaled(x)  == x * 8                     \* world units -> position units
TicksOf(ms) == (ms + 249) \div 250      \* frames until a timer of ms elapses

StepLen        == (Scaled(125)) \div 4  \* Speed(125.0) * delta
StopDistance   == Scaled(50)
NormalRange    == Scaled(65)
MergedRange    == Scaled(100)
MergeProximity == Scaled(100)
WalkStop       == Scaled(15)
ExecuteDist    == Scaled(40)
TelegraphTicks == TicksOf(1500)
StunTicks      == TicksOf(1500)
MergeCheckTicks == TicksOf(500)
PreGameTicks   == TicksOf(2000)

PlayerCount == PlayerNormal + PlayerTanks
EnemyCount  == EnemyNormal + EnemyTanks
\* every spawned unit, every unit a merge can produce, and one spare id
MaxEnt      == PlayerCount + EnemyCount + (PlayerCount \div 2) + (EnemyCount \div 2) + 1
Ent         == 1..MaxEnt
NoEnt       == 0

\* spawn positions drawn by spawn_normal_slime (x in [-500,-100) or [100,500))
PlayerXs == {Scaled(0 - 125), Scaled(0 - 375)}
EnemyXs  == {Scaled(125)}
SkirmishXs == {Scaled(0 - 125), Scaled(0 - 500)}

Abs(x) == IF x < 0 THEN 0 - x ELSE x
Dist(a, b) == Abs(a - b)
Min(a, b) == IF a < b THEN a ELSE b
Toward(from, to) == IF to > from THEN from + StepLen
                    ELSE IF to < from THEN from - StepLen ELSE from

\* ------------------------------------------------------------ components
NoAttack == [on |-> FALSE, target |-> NoEnt, hit_triggered |-> FALSE]
NoAnim   == [on |-> FALSE, clip |-> "none", frame_index |-> 0, finished |-> FALSE,
             cause |-> "none"]
NoPre    == [on |-> FALSE, timer |-> 0, partner |-> NoEnt, meeting_point |-> 0]
NoMerge  == [on |-> FALSE, partner |-> NoEnt, meeting_point |-> 0]
NoStun   == [on |-> FALSE, elapsed |-> 0]

Blank == [live |-> FALSE, team |-> "none", kind |-> "none", pos |-> 0,
          health |-> 0, healthChanged |-> FALSE,
          dying |-> FALSE, dyingAdded |-> FALSE,
          inert |-> FALSE, stun |-> NoStun,
          target |-> NoEnt,
          attack |-> NoAttack, attackAdded |-> FALSE, hits |-> 0,
          animType |-> "none", typeChanged |-> FALSE, anim |-> NoAnim,
          pre |-> NoPre, preAdded |-> FALSE, merging |-> NoMerge,
          vfx |-> <<>>, bang |-> 0, shield |-> FALSE, flip_x |-> FALSE]

\* AnimationType variants; the team variants (Enemy...) have the same frame
\* counts and looping, so one name stands for both.
TotalFrames(clip) ==
    CASE clip = "MoveSmallJump" -> IdleFrames
      [] clip = "JumpIdle"      -> IdleFrames
      [] clip = "BigJumpIdle"   -> IdleFrames
      [] clip = "Attack"        -> AttackFrames
      [] clip = "BigAttack"     -> AttackFrames
      [] clip = "Death"         -> DeathFrames
      [] clip = "BigDeath"      -> DeathFrames
      [] OTHER                  -> 0

Looping(clip) == clip \in {"MoveSmallJump", "JumpIdle", "BigJumpIdle"}

\* AnimationState::new(frame_duration, total_frames, looping)
NewAnim(clip) == [on |-> TRUE, clip |-> clip, frame_index |-> 0, finished |-> FALSE,
                  cause |-> "none"]
\* #[derive(Default)]: total_frames = 0, which update() never advances
DefaultAnim == NewAnim("none")

\* AnimationState::update(delta) with delta >= frame_duration
Update(a) ==
    IF a.finished \/ TotalFrames(a.clip) = 0 THEN a
    ELSE IF a.frame_index + 1 >= TotalFrames(a.clip)
         THEN IF Looping(a.clip)
              THEN [a EXCEPT !.frame_index = 0]
              ELSE [a EXCEPT !.frame_index = TotalFrames(a.clip) - 1,
                             !.finished = TRUE, !.cause = "clip"]
         ELSE [a EXCEPT !.frame_index = a.frame_index + 1]

\* per-kind spawn data
IdleAnimation(kind)  == IF kind = "merged" THEN "none" ELSE "MoveSmallJump"
DeathAnimation(kind) == IF kind = "merged" THEN "BigDeath" ELSE "Death"
AttackClip(kind)     == IF kind = "merged" THEN "BigAttack" ELSE "Attack"
\* Health at spawn
SpawnHealth(kind)    == CASE kind = "merged" -> MergedHealth
                          [] kind = "tank"   -> TankHealth
                          [] OTHER           -> NormalHealth
Damage(kind)         == IF kind = "merged" THEN MergedDamage ELSE NormalDamage
Range(kind)          == IF kind = "merged" THEN MergedRange ELSE NormalRange
CanStun(kind)        == kind = "tank"

\* ----------------------------------------------------------------- state
VARIABLES world,      \* entity id -> components
          res,        \* resources: timers, spawn counters, next entity id
          sched,      \* the system order of this run
          pc,         \* index of the next system of the frame
          ticks,      \* frames completed
          kills,      \* debug kills done
          gone,       \* per entity: -1 = not despawned, else frames ended since
          ev          \* what the system that ran last did (observation only)

vars == <<world, res, sched, pc, ticks, kills, gone, ev>>

Live(W)  == {e \in Ent : W[e].live}
Exists(W, e) == e \in Ent /\ W[e].live

NoEv == [sys |-> "none", targeted |-> {}, seekMoved |-> {}, staleUse |-> {},
         hitsFired |-> <<>>, stunned |-> {}, started |-> {}, merges |-> <<>>,
         deathDespawned |-> {}, paired |-> {}, hitLog |-> <<>>,
         pushes |-> <<>>, errors |-> {},
         declared |-> "none"]

\* ------------------------------------------------------------- schedule
\* Each order respects the chains of MovementPlugin, CombatPlugin,
\* AnimationPlugin and SpecialAbilitiesPlugin; the other systems are free.
\* (main.rs's plugin list does not name SpecialAbilitiesPlugin; its chain is
\* scheduled here as special_abilities.rs registers it.  unsmush_system and
\* y_sort_system only nudge positions, adding and removing no component, and
\* are left out.)
ScheduleA ==
    << "kill_random_on_spacebar", "spawn_slimes_system", "pre_game_timer_system",
       "pick_target_system", "move_to_target_system", "face_target_system",
       "pick_attack_system", "attack_system", "hit_frame_check_system",
       "attack_cleanup_system", "stun_timer_system", "ice_vfx_cleanup_system",
       "check_merge_system", "on_add_pre_merge_system", "pre_merge_system",
       "merge_walk_system", "execute_merge_system", "cancel_merge_system",
       "set_dying_system", "when_starts_dying_system", "when_finishes_dying_system",
       "switch_animation_system", "animation_system" >>

ScheduleB ==
    << "switch_animation_system", "animation_system",
       "when_finishes_dying_system", "when_starts_dying_system", "set_dying_system",
       "check_merge_system", "on_add_pre_merge_system", "pre_merge_system",
       "merge_walk_system", "execute_merge_system", "cancel_merge_system",
       "ice_vfx_cleanup_system", "stun_timer_system",
       "pick_attack_system", "attack_system", "hit_frame_check_system",
       "attack_cleanup_system", "face_target_system", "move_to_target_system",
       "pick_target_system", "pre_game_timer_system", "spawn_slimes_system",
       "kill_random_on_spacebar" >>

Schedules == <<ScheduleA, ScheduleB>>

\* ScheduleA as the multi-threaded executor may run it: set_dying_system has
\* no ordering against the merge chain, and merge_walk_system queues no
\* commands, so no sync point separates it from execute_merge_system.  In
\* this order set_dying_system runs in the window of execute_merge_system:
\* both read the same world and their command queues are applied together.
ScheduleW ==
    << "kill_random_on_spacebar", "spawn_slimes_system", "pre_game_timer_system",
       "pick_target_system", "move_to_target_system", "face_target_system",
       "pick_attack_system", "attack_system", "hit_frame_check_system",
       "attack_cleanup_system", "stun_timer_system", "ice_vfx_cleanup_system",
       "check_merge_system", "on_add_pre_merge_system", "pre_merge_system",
       "merge_walk_system", "execute_merge_system", "cancel_merge_system",
       "when_starts_dying_system", "when_finishes_dying_system",
       "switch_animation_system", "animation_system" >>

\* ScheduleA followed by check_round_end_system, which main() registers with
\* no ordering against the other systems
ScheduleR == ScheduleA \o << "check_round_end_system" >>

\* the spawner and the pre-game timer alone, in either order
MusterSchedules ==
    << << "spawn_slimes_system", "pre_game_timer_system" >>,
       << "pre_game_timer_system", "spawn_slimes_system" >> >>

Order ==
    IF sched <= Len(Schedules) THEN Schedules[sched]
    ELSE IF sched = Len(Schedules) + 1 THEN ScheduleW
    ELSE IF sched = Len(Schedules) + 2 THEN ScheduleR
    ELSE MusterSchedules[sched - Len(Schedules) - 2]
Cur   == IF pc <= Len(Order) THEN Order[pc] ELSE "end"

\* a system step: the world and resources it leaves, and what it did
Step(name, W, R, e) ==
    /\ world' = W
    /\ res' = R
    /\ ev' = [e EXCEPT !.sys = name]
    /\ pc' = pc + 1
    /\ gone' = [x \in Ent |-> IF world[x].live /\ ~W[x].live THEN 0 ELSE gone[x]]
    /\ UNCHANGED <<sched, ticks>>

\* ------------------------------------------------------------------ Init
Init ==
    /\ world = [e \in Ent |-> Blank]
    /\ res = [preGameOn |-> TRUE, preGameElapsed |-> 0, mergeElapsed |-> 0,
              spawnOn |-> TRUE, spawnFinished |-> FALSE,
              playerNormal |-> PlayerNormal, playerTanks |-> PlayerTanks,
              enemyNormal |-> EnemyNormal, enemyTanks |-> EnemyTanks, playerWizards |-> 0,
              playerXs |-> PlayerXs, nextId |-> 1,
              roundResult |-> "none"]
    /\ sched \in 1..Len(Schedules)
    /\ pc = 1
    /\ ticks = 0
    /\ kills = 0
    /\ gone = [e \in Ent |-> 0 - 1]
    /\ ev = NoEv

\* ------------------------------------------------ main.rs: debug kill key
\* kill_random_on_spacebar: on a key press one random Health is set to 0
kill_random_on_spacebar(W, victim) ==
    IF victim = NoEnt THEN W
    ELSE [W EXCEPT ![victim].health = 0, ![victim].healthChanged = TRUE]

KillStep ==
    /\ Cur = "kill_random_on_spacebar"
    /\ \E victim \in {NoEnt} \cup Live(world) :
               /\ victim # NoEnt => kills < MaxKills
               /\ kills' = IF victim = NoEnt THEN kills ELSE kills + 1
               /\ Step("kill_random_on_spacebar", kill_random_on_spacebar(world, victim),
                       res, NoEv)

\* ------------------------------------------------------- spawn_slimes.rs
\* spawn_normal_slime: the bundle of a normal slime
spawn_normal_slime(team, x) ==
    [Blank EXCEPT !.live = TRUE, !.team = team, !.kind = "normal", !.pos = x,
                  !.health = NormalHealth, !.healthChanged = TRUE,
                  !.inert = TRUE,
                  !.animType = IdleAnimation("normal"), !.typeChanged = TRUE,
                  !.anim = DefaultAnim,
                  !.flip_x = (team = "Enemy")]

\* spawn_tank_slime: a normal slime with the stun attack, Health(20), a shield child
spawn_tank_slime(team, x) ==
    [spawn_normal_slime(team, x) EXCEPT !.kind = "tank", !.health = TankHealth,
                                        !.shield = TRUE]

\* the unit one team gets from one firing: normal slimes first, then tanks
SpawnFor(W, id, normal, tanks, team, x) ==
    IF id \notin DOMAIN W THEN W
    ELSE IF normal > 0 THEN [W EXCEPT ![id] = spawn_normal_slime(team, x)]
    ELSE IF tanks > 0 THEN [W EXCEPT ![id] = spawn_tank_slime(team, x)]
    ELSE W

spawn_slimes_system(W, R, px, ex) ==
    LET fire == R.spawnFinished
        pSp  == fire /\ (R.playerNormal > 0 \/ R.playerTanks > 0)
        eSp  == fire /\ (R.enemyNormal > 0 \/ R.enemyTanks > 0)
        pId  == R.nextId
        eId  == IF pSp THEN R.nextId + 1 ELSE R.nextId
        W1   == IF pSp THEN SpawnFor(W, pId, R.playerNormal, R.playerTanks, "Player", px)
                ELSE W
        W2   == IF eSp THEN SpawnFor(W1, eId, R.enemyNormal, R.enemyTanks, "Enemy", ex)
                ELSE W1
        pn   == IF pSp /\ R.playerNormal > 0 THEN R.playerNormal - 1 ELSE R.playerNormal
        pt   == IF pSp /\ R.playerNormal = 0 THEN R.playerTanks - 1 ELSE R.playerTanks
        en   == IF eSp /\ R.enemyNormal > 0 THEN R.enemyNormal - 1 ELSE R.enemyNormal
        et   == IF eSp /\ R.enemyNormal = 0 THEN R.enemyTanks - 1 ELSE R.enemyTanks
        \* the enemy's wizards are the literal 0 of setup_slime_spawn_system
        done == pn + pt + R.playerWizards + en + et + 0 = 0
        R1   == [R EXCEPT !.playerNormal = pn, !.playerTanks = pt,
                          !.enemyNormal = en, !.enemyTanks = et,
                          !.nextId = IF eSp THEN eId + 1 ELSE eId,
                          !.spawnOn = ~done,
                          !.spawnFinished = ~done]
    IN  <<W2, R1>>

SpawnStep ==
    /\ Cur = "spawn_slimes_system"
    /\ IF res.spawnOn
           THEN \E px \in res.playerXs, ex \in EnemyXs :
                   LET r == spawn_slimes_system(world, res, px, ex)
                   IN  /\ Step("spawn_slimes_system", r[1], r[2], NoEv)
                       /\ UNCHANGED kills
           ELSE Step("spawn_slimes_system", world, res, NoEv) /\ UNCHANGED kills

\* ------------------------------------------------------- setup_round.rs
\* pre_game_timer_system: when the 2 s timer finishes, every Inert is removed
pre_game_timer_system(W, R) ==
    IF ~R.preGameOn THEN <<W, R>>
    ELSE IF R.preGameElapsed + 1 >= PreGameTicks
         THEN << [e \in DOMAIN W |-> [W[e] EXCEPT !.inert = FALSE]],
                 [R EXCEPT !.preGameOn = FALSE, !.preGameElapsed = 0] >>
         ELSE << W, [R EXCEPT !.preGameElapsed = R.preGameElapsed + 1] >>

PreGameStep ==
    /\ Cur = "pre_game_timer_system"
    /\ LET r == pre_game_timer_system(world, res)
           IN  Step("pre_game_timer_system", r[1], r[2], NoEv) /\ UNCHANGED kills

HasChildren(u) == Len(u.vfx) > 0 \/ u.bang > 0 \/ u.shield

\* stun_timer_system: ticks StunTimer of units that have Inert, AnimationState
\* and Children; when it finishes the unit is un-stunned
stun_timer_filter(u) == u.live /\ u.stun.on /\ u.inert /\ u.anim.on /\ HasChildren(u)

stun_timer_system(W) ==
    [e \in Ent |->
        LET u == W[e] IN
        IF ~stun_timer_filter(u) THEN u
        ELSE IF u.stun.elapsed + 1 = StunTicks
             THEN [u EXCEPT !.inert = FALSE, !.stun = NoStun,
                            !.anim.finished = FALSE, !.anim.cause = "none",
                            !.vfx = <<>>]
             ELSE [u EXCEPT !.stun.elapsed = Min(u.stun.elapsed + 1, StunTicks + 1)]]

StunTimerStep ==
    /\ Cur = "stun_timer_system"
    /\ Step("stun_timer_system", stun_timer_system(world), res, NoEv) /\ UNCHANGED kills

\* --------------------------------------------------------- pick_target.rs
\* the units a targetless unit may be given: the nearest of a random sample
\* of up to 3 units of the other team (any live unit with Team and Transform)
Candidates(W, e) == {c \in Live(W) : W[c].team # W[e].team}

Samples(W, e) ==
    {S \in SUBSET Candidates(W, e) :
        Cardinality(S) = Min(SampleSize, Cardinality(Candidates(W, e)))}

\* the choice as it would be if any member of the sample could be taken
Nearest_any(W, e, S) == S

Nearest(W, e, S) ==
    {c \in S : \A d \in S : Dist(W[e].pos, W[c].pos) <= Dist(W[e].pos, W[d].pos)}

TargetChoices(W, e) == UNION {Nearest(W, e, S) : S \in Samples(W, e)}

\* Query<(Entity, &PickTargetStrategy, &Team, &Transform), Without<TargetEntity>>
pick_target_filter(u) == u.live /\ u.target = NoEnt

Needers(W) == {e \in Ent : pick_target_filter(W[e])}

pick_target_system(W, pick) ==
    [e \in Ent |->
        IF e \in Needers(W) /\ pick[e] # NoEnt
        THEN [W[e] EXCEPT !.target = pick[e]]
        ELSE W[e]]

\* what one unit may draw: a choice if it needs a target and has candidates
ChoiceSet(W, e) ==
    IF e \in Needers(W) /\ TargetChoices(W, e) # {} THEN TargetChoices(W, e) ELSE {NoEnt}

\* the draws of the units 1..n, as sequences indexed by entity id
RECURSIVE Picks(_, _)
Picks(W, n) ==
    IF n = 0 THEN {<<>>}
    ELSE {Append(q, c) : q \in Picks(W, n - 1), c \in ChoiceSet(W, n)}

PickTargetStep ==
    /\ Cur = "pick_target_system"
    /\ \E pick \in Picks(world, MaxEnt) :
           /\ Step("pick_target_system", pick_target_system(world, pick), res,
                   [NoEv EXCEPT !.targeted = {e \in Ent : pick[e] # NoEnt}])
           /\ UNCHANGED kills

\* ------------------------------------------------------------ movement.rs
\* params.p1().get(target): the target's Transform, if the entity exists
Lookup(W, t) == Exists(W, t)

\* Query<(Entity, &mut Transform, &TargetEntity)>: every unit with a target
move_filter(u) == u.live /\ u.target # NoEnt

Movers(W)      == {e \in Ent : move_filter(W[e])}
MoveOrders(W)  == {e \in Movers(W) : Lookup(W, W[e].target)}
LostTargets(W) == Movers(W) \ MoveOrders(W)

\* the movers whose distance to the target exceeds 50
Seekers(W) ==
    {e \in MoveOrders(W) : Dist(W[W[e].target].pos, W[e].pos) > StopDistance}

\* the seek pass without the lost-target cleanup
move_to_target_system_keeps(W) ==
    [e \in Ent |->
        IF e \in Seekers(W)
        THEN [W[e] EXCEPT !.pos = Toward(W[e].pos, W[W[e].target].pos)]
        ELSE W[e]]

move_to_target_system(W) ==
    [e \in Ent |->
        IF e \in Seekers(W)
        THEN [W[e] EXCEPT !.pos = Toward(W[e].pos, W[W[e].target].pos)]
        ELSE IF e \in LostTargets(W)
        THEN [W[e] EXCEPT !.target = NoEnt]
        ELSE W[e]]

MoveStep ==
    /\ Cur = "move_to_target_system"
    /\ Step("move_to_target_system", move_to_target_system(world), res,
                [NoEv EXCEPT !.seekMoved = Seekers(world),
                             !.staleUse = {e \in Seekers(world) : ~Exists(world, world[e].target)}])
    /\ UNCHANGED kills

\* -------------------------------------------------------------- render.rs
\* face_target_system: flip the sprite toward the target, if it exists
face_target_system(W) ==
    [e \in Ent |->
        IF W[e].live /\ W[e].target # NoEnt /\ Lookup(W, W[e].target)
        THEN [W[e] EXCEPT !.flip_x = (W[W[e].target].pos < W[e].pos)]
        ELSE W[e]]

FaceStep ==
    /\ Cur = "face_target_system"
    /\ Step("face_target_system", face_target_system(world), res,
                [NoEv EXCEPT !.staleUse =
                    {e \in Ent : /\ world[e].live /\ world[e].target # NoEnt
                                 /\ Lookup(world, world[e].target)
                                 /\ ~Exists(world, world[e].target)}])
    /\ UNCHANGED kills

\* -------------------------------------------------------------- combat.rs
\* the filter as it would be without Without<Inert>
pick_attack_filter_inert(u) ==
    u.live /\ u.target # NoEnt /\ ~u.attack.on /\ ~u.dying /\ ~u.merging.on

\* pick_attack_system's query filter:
\* Without<ActiveAttack>, Without<Dying>, Without<Merging>, Without<Inert>
pick_attack_filter(u) ==
    u.live /\ u.target # NoEnt /\ ~u.attack.on /\ ~u.dying /\ ~u.merging.on /\ ~u.inert

\* the units that start an attack: the target exists and is within range
AttackStarters(W) ==
    {e \in Ent : /\ pick_attack_filter(W[e])
                 /\ Lookup(W, W[e].target)
                 /\ Dist(W[e].pos, W[W[e].target].pos) <= Range(W[e].kind)}

pick_attack_system(W) ==
    [e \in Ent |->
        IF e \in AttackStarters(W)
        THEN [W[e] EXCEPT !.attack = [on |-> TRUE, target |-> W[e].target,
                                      hit_triggered |-> FALSE],
                          !.attackAdded = TRUE, !.hits = 0]
        ELSE W[e]]

PickAttackStep ==
    /\ Cur = "pick_attack_system"
    /\ Step("pick_attack_system", pick_attack_system(world), res,
                [NoEv EXCEPT !.started = AttackStarters(world),
                             !.staleUse = {e \in AttackStarters(world) :
                                              ~Exists(world, world[e].target)}])
    /\ UNCHANGED kills

\* attack_system: Added<ActiveAttack> switches the AnimationType to the attack clip
attack_system(W) ==
    [e \in Ent |->
        IF W[e].live /\ W[e].attack.on /\ W[e].attackAdded
        THEN [W[e] EXCEPT !.animType = AttackClip(W[e].kind), !.typeChanged = TRUE,
                          !.attackAdded = FALSE]
        ELSE [W[e] EXCEPT !.attackAdded = FALSE]]

AttackStep ==
    /\ Cur = "attack_system"
    /\ Step("attack_system", attack_system(world), res, NoEv) /\ UNCHANGED kills

\* hit_frame_check_system: Query<(Entity, &mut ActiveAttack, &AnimationState),
\* Without<Dying>>; fires when frame_index >= hit_frame and not yet triggered
hit_frame_check_fires(u) ==
    /\ u.live /\ u.attack.on /\ u.anim.on /\ ~u.dying
    /\ u.anim.frame_index >= HitFrame
    /\ ~u.attack.hit_triggered

Hitters(W) == {e \in Ent : hit_frame_check_fires(W[e])}

\* the hit fired without the guard flag being set
mark_hit_untriggered(u) == [u EXCEPT !.hits = u.hits + 1]

\* the direct mutation of hit_frame_check_system: hit_triggered = true
mark_hit_triggered(u) == [u EXCEPT !.attack.hit_triggered = TRUE, !.hits = u.hits + 1]

\* the observer as it would be if it did not look its target up and wrote
\* to whatever the event names
on_hit_observer_blind(W, attacker, target, kind, stunRoll) ==
    IF ~Exists(W, attacker) THEN W
    ELSE IF Exists(W, target) /\ ~W[target].anim.on THEN W
    ELSE LET t  == W[target]
             h1 == IF Exists(W, target) /\ t.health <= 0 THEN t.health
                   ELSE t.health - Damage(kind)
         IN  [W EXCEPT ![target] = [t EXCEPT !.health = h1, !.healthChanged = TRUE]]

\* the observer as it would be if damage were applied whatever the health
on_hit_observer_hitsDead(W, attacker, target, kind, stunRoll) ==
    IF ~Exists(W, attacker) THEN W
    ELSE IF ~(Exists(W, target) /\ W[target].anim.on) THEN W
    ELSE LET t  == W[target]
             h1 == t.health - Damage(kind)
             t1 == [t EXCEPT !.health = h1, !.healthChanged = TRUE]
         IN  IF CanStun(kind) /\ h1 > 0 /\ stunRoll
             THEN [W EXCEPT ![target] =
                     [t1 EXCEPT !.inert = TRUE,
                                !.stun = [on |-> TRUE, elapsed |-> 0],
                                !.attack = NoAttack, !.attackAdded = FALSE, !.hits = 0,
                                !.anim.finished = TRUE,
                                !.vfx = Append(t.vfx, 0)]]
             ELSE [W EXCEPT ![target] = t1]

\* the observer as it would be if the stun roll did not look at the health
\* the hit left
on_hit_observer_stunsDead(W, attacker, target, kind, stunRoll) ==
    IF ~Exists(W, attacker) THEN W
    ELSE IF ~(Exists(W, target) /\ W[target].anim.on) THEN W
    ELSE LET t  == W[target]
             h1 == IF t.health > 0 THEN t.health - Damage(kind) ELSE t.health
             t1 == [t EXCEPT !.health = h1,
                             !.healthChanged = (t.healthChanged \/ t.health > 0)]
         IN  IF CanStun(kind) /\ stunRoll
             THEN [W EXCEPT ![target] =
                     [t1 EXCEPT !.inert = TRUE,
                                !.stun = [on |-> TRUE, elapsed |-> 0],
                                !.attack = NoAttack, !.attackAdded = FALSE, !.hits = 0,
                                !.anim.finished = TRUE,
                                !.vfx = Append(t.vfx, 0)]]
             ELSE [W EXCEPT ![target] = t1]

\* on_hit_observer for OnHitEvent{attacker, target, effect}; stunRoll is the
\* outcome of rng.gen::<f32>() < stun_chance
on_hit_observer(W, attacker, target, kind, stunRoll) ==
    IF ~Exists(W, attacker) THEN W
    ELSE IF ~(Exists(W, target) /\ W[target].anim.on) THEN W
    ELSE LET t  == W[target]
             h1 == IF t.health > 0 THEN t.health - Damage(kind) ELSE t.health
             t1 == [t EXCEPT !.health = h1,
                             !.healthChanged = (t.healthChanged \/ t.health > 0)]
         IN  IF CanStun(kind) /\ h1 > 0 /\ stunRoll
             THEN [W EXCEPT ![target] =
                     [t1 EXCEPT !.inert = TRUE,
                                !.stun = [on |-> TRUE, elapsed |-> 0],
                                !.attack = NoAttack, !.attackAdded = FALSE, !.hits = 0,
                                !.anim.finished = TRUE,
                                !.anim.cause = IF t.anim.finished THEN t.anim.cause
                                               ELSE "stun",
                                !.vfx = Append(t.vfx, 0)]]
             ELSE [W EXCEPT ![target] = t1]

\* the queued OnHitEvents are resolved in the order they were triggered
RECURSIVE ResolveHits(_, _, _)
ResolveHits(W, events, rolls) ==
    IF events = <<>> THEN W
    ELSE LET h == Head(events)
         IN  ResolveHits(on_hit_observer(W, h.attacker, h.target, h.kind,
                                         h.attacker \in rolls),
                         Tail(events), rolls)

\* the entities of a set in ascending id order
RECURSIVE InOrder(_)
InOrder(S) ==
    IF S = {} THEN <<>>
    ELSE LET m == CHOOSE x \in S : \A y \in S : x <= y
         IN  <<m>> \o InOrder(S \ {m})

HitEvents(W) ==
    LET order == InOrder(Hitters(W))
    IN  [i \in 1..Len(order) |->
            [attacker |-> order[i], target |-> W[order[i]].attack.target,
             kind |-> W[order[i]].kind, frame |-> W[order[i]].anim.frame_index]]

\* the notifications on_hit_observer triggers for one OnHitEvent, in order:
\* DamagedEvent when the target's health was positive, StunnedEvent when
\* the stun roll is made and succeeds
on_hit_events(W, attacker, target, kind, stunRoll) ==
    IF ~Exists(W, attacker) THEN <<>>
    ELSE IF ~(Exists(W, target) /\ W[target].anim.on) THEN <<>>
    ELSE LET before == W[target].health
             after  == on_hit_observer(W, attacker, target, kind, stunRoll)[target].health
         IN  (IF before > 0 THEN <<"Damaged">> ELSE <<>>)
             \o (IF CanStun(kind) /\ after > 0 /\ stunRoll THEN <<"Stunned">> ELSE <<>>)

\* what each queued OnHitEvent did, in the order the observer ran: whether
\* the observer got past its early returns, the target's health before and
\* after, whether Inert/StunTimer were inserted, the notifications, whether
\* the attacker was Inert or Dying when the observer ran, whether the
\* attacker's own health and position were left alone
RECURSIVE HitLog(_, _, _)
HitLog(W, events, rolls) ==
    IF events = <<>> THEN <<>>
    ELSE LET h  == Head(events)
             r  == h.attacker \in rolls
             W2 == on_hit_observer(W, h.attacker, h.target, h.kind, r)
             ok == Exists(W, h.attacker) /\ Exists(W, h.target) /\ W[h.target].anim.on
         IN  << [attacker |-> h.attacker, target |-> h.target, kind |-> h.kind,
                 resolved |-> ok,
                 before   |-> IF ok THEN W[h.target].health ELSE 0,
                 after    |-> IF ok THEN W2[h.target].health ELSE 0,
                 inert    |-> ok /\ W2[h.target].inert
                                /\ Len(W2[h.target].vfx) > Len(W[h.target].vfx),
                 notes    |-> on_hit_events(W, h.attacker, h.target, h.kind, r),
                 frozen   |-> Exists(W, h.attacker)
                                /\ (W[h.attacker].inert \/ W[h.attacker].dying),
                 self     |-> ok => /\ W2[h.attacker].health = W[h.attacker].health
                                    /\ W2[h.attacker].pos = W[h.attacker].pos] >>
             \o HitLog(W2, Tail(events), rolls)

hit_frame_check_system(W, rolls) ==
    LET W1 == [e \in Ent |-> IF e \in Hitters(W) THEN mark_hit_triggered(W[e]) ELSE W[e]]
    IN  ResolveHits(W1, HitEvents(W), rolls)

\* the units a run of the system stunned, and whether each was mid-attack
Stunned(W, W2) ==
    {[unit |-> e, hadAttack |-> W[e].attack.on] :
        e \in {x \in Ent : W2[x].live /\ W2[x].stun.on /\ ~W[x].stun.on}}

HitFrameCheckStep ==
    /\ Cur = "hit_frame_check_system"
    /\ \E rolls \in SUBSET {e \in Hitters(world) : CanStun(world[e].kind)} :
           LET W2 == hit_frame_check_system(world, rolls)
           IN  /\ Step("hit_frame_check_system", W2, res,
                       [NoEv EXCEPT !.hitsFired = HitEvents(world),
                                    !.stunned = Stunned(world, W2),
                                    !.hitLog = HitLog(
                                        [e \in Ent |-> IF e \in Hitters(world)
                                                       THEN mark_hit_triggered(world[e])
                                                       ELSE world[e]],
                                        HitEvents(world), rolls)])
               /\ UNCHANGED kills

\* attack_cleanup_system: With<ActiveAttack>, Without<Dying>, Without<Inert>,
\* and the unit has AnimationState, AnimationType and IdleAnimation
attack_cleanup_filter(u) ==
    /\ u.live /\ u.attack.on /\ ~u.dying /\ ~u.inert
    /\ u.anim.on /\ IdleAnimation(u.kind) # "none"

attack_cleanup_system(W) ==
    [e \in Ent |->
        IF attack_cleanup_filter(W[e]) /\ W[e].anim.finished
        THEN [W[e] EXCEPT !.attack = NoAttack, !.attackAdded = FALSE, !.hits = 0,
                          !.animType = IdleAnimation(W[e].kind), !.typeChanged = TRUE]
        ELSE W[e]]

AttackCleanupStep ==
    /\ Cur = "attack_cleanup_system"
    /\ Step("attack_cleanup_system", attack_cleanup_system(world), res, NoEv)
    /\ UNCHANGED kills

\* ice_vfx_cleanup_system: a finished IceImpact child despawns itself
RECURSIVE Unfinished(_)
Unfinished(s) ==
    IF s = <<>> THEN <<>>
    ELSE IF Head(s) >= VfxFrames - 1 THEN Unfinished(Tail(s))
    ELSE <<Head(s)>> \o Unfinished(Tail(s))

ice_vfx_cleanup_system(W) ==
    [e \in Ent |-> IF W[e].live THEN [W[e] EXCEPT !.vfx = Unfinished(W[e].vfx)] ELSE W[e]]

IceVfxCleanupStep ==
    /\ Cur = "ice_vfx_cleanup_system"
    /\ Step("ice_vfx_cleanup_system", ice_vfx_cleanup_system(world), res, NoEv)
    /\ UNCHANGED kills

\* ------------------------------------------------------------ animation.rs
\* switch_animation_system: Changed<AnimationType> on a unit with AnimationState
\* restarts the state for the new clip
switch_animation_system(W) ==
    [e \in Ent |->
        IF W[e].live /\ W[e].typeChanged /\ W[e].anim.on
        THEN [W[e] EXCEPT !.anim = NewAnim(W[e].animType), !.typeChanged = FALSE]
        ELSE [W[e] EXCEPT !.typeChanged = FALSE]]

SwitchAnimationStep ==
    /\ Cur = "switch_animation_system"
    /\ Step("switch_animation_system", switch_animation_system(world), res, NoEv)
    /\ UNCHANGED kills

\* animation_system: update() on every AnimationState, the IceImpact children's too
animation_system(W) ==
    [e \in Ent |->
        IF W[e].live
        THEN [W[e] EXCEPT !.anim = IF W[e].anim.on THEN Update(W[e].anim) ELSE W[e].anim,
                          !.vfx = [i \in 1..Len(W[e].vfx) |->
                                      Min(W[e].vfx[i] + 1, VfxFrames - 1)]]
        ELSE W[e]]

AnimationStep ==
    /\ Cur = "animation_system"
    /\ Step("animation_system", animation_system(world), res, NoEv) /\ UNCHANGED kills

\* --------------------------------------------------------------- health.rs
\* set_dying_system: Query<(Entity, &Health), (Without<Dying>, Changed<Health>)>
set_dying_system(W) ==
    [e \in Ent |->
        IF W[e].live /\ ~W[e].dying /\ W[e].healthChanged /\ W[e].health <= 0
        THEN [W[e] EXCEPT !.dying = TRUE, !.dyingAdded = TRUE, !.healthChanged = FALSE]
        ELSE [W[e] EXCEPT !.healthChanged = FALSE]]

SetDyingStep ==
    /\ Cur = "set_dying_system"
    /\ Step("set_dying_system", set_dying_system(world), res, NoEv) /\ UNCHANGED kills

\* when_starts_dying_system: Added<Dying> switches to the death animation
when_starts_dying_system(W) ==
    [e \in Ent |->
        IF W[e].live /\ W[e].dying /\ W[e].dyingAdded
        THEN [W[e] EXCEPT !.animType = DeathAnimation(W[e].kind), !.typeChanged = TRUE,
                          !.dyingAdded = FALSE]
        ELSE [W[e] EXCEPT !.dyingAdded = FALSE]]

WhenStartsDyingStep ==
    /\ Cur = "when_starts_dying_system"
    /\ Step("when_starts_dying_system", when_starts_dying_system(world), res, NoEv)
    /\ UNCHANGED kills

\* when_finishes_dying_system: a Dying unit whose AnimationState is finished
\* is despawned
finishes_dying(u) == u.live /\ u.dying /\ u.anim.on /\ u.anim.finished

DeathDespawns(W) == {e \in Ent : finishes_dying(W[e])}

when_finishes_dying_system(W) ==
    [e \in Ent |-> IF e \in DeathDespawns(W) THEN Blank ELSE W[e]]

\* what the despawned units looked like when the system read them
DeathRecord(W) ==
    {[unit |-> e, clip |-> W[e].anim.clip, cause |-> W[e].anim.cause,
      frame_index |-> W[e].anim.frame_index, deathClip |-> DeathAnimation(W[e].kind)]
        : e \in DeathDespawns(W)}

WhenFinishesDyingStep ==
    /\ Cur = "when_finishes_dying_system"
    /\ Step("when_finishes_dying_system", when_finishes_dying_system(world), res,
                [NoEv EXCEPT !.deathDespawned = DeathRecord(world)])
    /\ UNCHANGED kills

\* ---------------------------------------------------- special_abilities.rs
\* check_merge_system's query filter: Without<Inert>, Without<Dying>,
\* Without<ActiveAttack>, Without<PreMerging>, Without<Merging>,
\* Without<MergedSlime>, With<Health>
merge_eligible(u) ==
    /\ u.live /\ ~u.inert /\ ~u.dying /\ ~u.attack.on
    /\ ~u.pre.on /\ ~u.merging.on /\ u.kind # "merged"

Eligible(W) == {e \in Ent : merge_eligible(W[e])}

\* for i in 0..len { for j in (i+1)..len { ... } }
RECURSIVE PairsFrom(_)
PairsFrom(c) ==
    IF Len(c) <= 1 THEN <<>>
    ELSE [i \in 1..(Len(c) - 1) |-> <<c[1], c[i + 1]>>] \o PairsFrom(Tail(c))

\* the pairs that get as far as the dice: same team, within 100
Qualifying(W) ==
    {p \in Eligible(W) \X Eligible(W) :
        /\ p[1] < p[2]
        /\ W[p[1]].team = W[p[2]].team
        /\ Dist(W[p[1]].pos, W[p[2]].pos) <= MergeProximity}

\* the loop body as it would be without the already_paired test
RECURSIVE PairLoop_greedy(_, _, _, _)
PairLoop_greedy(W, pairs, already_paired, rolls) ==
    IF pairs = <<>> THEN <<>>
    ELSE LET a == Head(pairs)[1]
             b == Head(pairs)[2]
         IN  IF \/ W[a].team # W[b].team
                \/ Dist(W[a].pos, W[b].pos) > MergeProximity
                \/ Head(pairs) \notin rolls
             THEN PairLoop_greedy(W, Tail(pairs), already_paired, rolls)
             ELSE <<Head(pairs)>> \o
                  PairLoop_greedy(W, Tail(pairs), already_paired \cup {a, b}, rolls)

\* the loop body: which pairs are formed, given the pairs whose roll succeeds
RECURSIVE PairLoop(_, _, _, _)
PairLoop(W, pairs, already_paired, rolls) ==
    IF pairs = <<>> THEN <<>>
    ELSE LET a == Head(pairs)[1]
             b == Head(pairs)[2]
         IN  IF \/ W[a].team # W[b].team
                \/ a \in already_paired \/ b \in already_paired
                \/ Dist(W[a].pos, W[b].pos) > MergeProximity
                \/ Head(pairs) \notin rolls
             THEN PairLoop(W, Tail(pairs), already_paired, rolls)
             ELSE <<Head(pairs)>> \o
                  PairLoop(W, Tail(pairs), already_paired \cup {a, b}, rolls)

NewPairs(W, rolls) == PairLoop(W, PairsFrom(InOrder(Eligible(W))), {}, rolls)

\* the insertion as it would be if only the first unit of a pair got PreMerging
RECURSIVE InsertPreMerging_oneSided(_, _)
InsertPreMerging_oneSided(W, pairs) ==
    IF pairs = <<>> THEN W
    ELSE LET a == Head(pairs)[1]
             b == Head(pairs)[2]
             m == (W[a].pos + W[b].pos) \div 2
         IN  InsertPreMerging_oneSided(
                [W EXCEPT ![a].pre = [on |-> TRUE, timer |-> 0, partner |-> b,
                                      meeting_point |-> m],
                          ![a].preAdded = TRUE, ![a].target = NoEnt,
                          ![b].target = NoEnt],
                Tail(pairs))

\* insert PreMerging on both, each naming the other, and remove TargetEntity
RECURSIVE InsertPreMerging(_, _)
InsertPreMerging(W, pairs) ==
    IF pairs = <<>> THEN W
    ELSE LET a == Head(pairs)[1]
             b == Head(pairs)[2]
             m == (W[a].pos + W[b].pos) \div 2
         IN  InsertPreMerging(
                [W EXCEPT ![a].pre = [on |-> TRUE, timer |-> 0, partner |-> b,
                                      meeting_point |-> m],
                          ![a].preAdded = TRUE, ![a].target = NoEnt,
                          ![b].pre = [on |-> TRUE, timer |-> 0, partner |-> a,
                                      meeting_point |-> m],
                          ![b].preAdded = TRUE, ![b].target = NoEnt],
                Tail(pairs))

MergeTimerFires(R) == R.mergeElapsed + 1 >= MergeCheckTicks

check_merge_system(W, R, rolls) ==
    IF ~MergeTimerFires(R)
    THEN << W, [R EXCEPT !.mergeElapsed = R.mergeElapsed + 1] >>
    ELSE << InsertPreMerging(W, NewPairs(W, rolls)), [R EXCEPT !.mergeElapsed = 0] >>

SeqToSet(q) == {q[i] : i \in 1..Len(q)}

CheckMergeStep ==
    /\ Cur = "check_merge_system"
    /\ \E rolls \in SUBSET (IF MergeTimerFires(res) THEN Qualifying(world) ELSE {}) :
               LET r == check_merge_system(world, res, rolls)
               IN  /\ Step("check_merge_system", r[1], r[2],
                           [NoEv EXCEPT !.paired =
                               IF MergeTimerFires(res)
                               THEN SeqToSet(NewPairs(world, rolls)) ELSE {}])
                   /\ UNCHANGED kills

\* on_add_pre_merge_system: Added<PreMerging> on a unit with AnimationState:
\* freeze at frame 0, remove AnimationState, attach the "!" child
on_add_pre_merge_system(W) ==
    [e \in Ent |->
        IF W[e].live /\ W[e].pre.on /\ W[e].preAdded /\ W[e].anim.on
        THEN [W[e] EXCEPT !.anim = NoAnim, !.bang = W[e].bang + 1, !.preAdded = FALSE]
        ELSE [W[e] EXCEPT !.preAdded = FALSE]]

OnAddPreMergeStep ==
    /\ Cur = "on_add_pre_merge_system"
    /\ Step("on_add_pre_merge_system", on_add_pre_merge_system(world), res, NoEv)
    /\ UNCHANGED kills

\* alive_check: Query<Entity, Without<Dying>>
alive_check(W, e) == Exists(W, e) /\ ~W[e].dying

\* pre_merge_system's query: Query<(Entity, &mut PreMerging), Without<Dying>>
pre_merge_filter(u) == u.live /\ u.pre.on /\ ~u.dying

\* the tick as it would be if the telegraph timer never advanced
TickPre_stalled(u) == u

\* pre_merging.timer.tick(delta)
TickPre(u) == [u EXCEPT !.pre.timer = Min(u.pre.timer + 1, TelegraphTicks)]

\* the transition as it would be if the meeting point were taken again from
\* the positions the partners have when the telegraph ends
pre_merge_transition_recomputed(W, entity, partner, meeting_point) ==
    [W EXCEPT ![entity].anim = NewAnim("MoveSmallJump"),
              ![partner].anim = NewAnim("MoveSmallJump"),
              ![entity].pre = NoPre, ![entity].preAdded = FALSE,
              ![entity].merging = [on |-> TRUE, partner |-> partner,
                                   meeting_point |-> (W[entity].pos + W[partner].pos) \div 2],
              ![partner].pre = NoPre, ![partner].preAdded = FALSE,
              ![partner].merging = [on |-> TRUE, partner |-> entity,
                                    meeting_point |-> (W[entity].pos + W[partner].pos) \div 2]]

\* the commands of one unit whose telegraph timer is finished: both partners
\* get a fresh AnimationState and swap PreMerging for Merging, naming each other
pre_merge_transition(W, entity, partner, meeting_point) ==
    [W EXCEPT ![entity].anim = NewAnim("MoveSmallJump"),
              ![partner].anim = NewAnim("MoveSmallJump"),
              ![entity].pre = NoPre, ![entity].preAdded = FALSE,
              ![entity].merging = [on |-> TRUE, partner |-> partner,
                                   meeting_point |-> meeting_point],
              ![partner].pre = NoPre, ![partner].preAdded = FALSE,
              ![partner].merging = [on |-> TRUE, partner |-> entity,
                                    meeting_point |-> meeting_point]]

\* the commands as they would be if the transition did not wait for the timer
RECURSIVE PreMergeCommands_early(_, _, _)
PreMergeCommands_early(T, W, order) ==
    IF order = <<>> THEN W
    ELSE LET e == Head(order)
             p == T[e].pre.partner
         IN  IF ~alive_check(T, p)
             THEN PreMergeCommands_early(T, [W EXCEPT ![e].pre = NoPre,
                                                      ![e].preAdded = FALSE],
                                         Tail(order))
             ELSE PreMergeCommands_early(T, pre_merge_transition(W, e, p,
                                                                 T[e].pre.meeting_point),
                                         Tail(order))

\* the queued commands, applied in iteration order; T is the world the system
\* read (timers ticked), W the world the commands have built so far
RECURSIVE PreMergeCommands(_, _, _)
PreMergeCommands(T, W, order) ==
    IF order = <<>> THEN W
    ELSE LET e == Head(order)
             p == T[e].pre.partner
         IN  IF ~alive_check(T, p)
             THEN PreMergeCommands(T, [W EXCEPT ![e].pre = NoPre, ![e].preAdded = FALSE],
                                   Tail(order))
             ELSE IF T[e].pre.timer >= TelegraphTicks
             THEN PreMergeCommands(T, pre_merge_transition(W, e, p, T[e].pre.meeting_point),
                                   Tail(order))
             ELSE PreMergeCommands(T, W, Tail(order))

pre_merge_system(W) ==
    LET T == [e \in Ent |-> IF pre_merge_filter(W[e]) THEN TickPre(W[e]) ELSE W[e]]
    IN  PreMergeCommands(T, T, InOrder({e \in Ent : pre_merge_filter(W[e])}))

PreMergeStep ==
    /\ Cur = "pre_merge_system"
    /\ Step("pre_merge_system", pre_merge_system(world), res, NoEv) /\ UNCHANGED kills

\* merge_walk_system: Query<(&Merging, &mut Transform, &Speed), Without<Dying>>
merge_walk_system(W) ==
    [e \in Ent |->
        IF W[e].live /\ W[e].merging.on /\ ~W[e].dying
           /\ Dist(W[e].merging.meeting_point, W[e].pos) >= WalkStop
        THEN [W[e] EXCEPT !.pos = Toward(W[e].pos, W[e].merging.meeting_point)]
        ELSE W[e]]

MergeWalkStep ==
    /\ Cur = "merge_walk_system"
    /\ Step("merge_walk_system", merge_walk_system(world), res, NoEv) /\ UNCHANGED kills

\* execute_merge_system's query: Query<(Entity, &Merging, &Transform, &Team),
\* Without<Dying>>
execute_filter(u) == u.live /\ u.merging.on /\ ~u.dying

\* the merged slime as it would be with a normal slime's health
spawn_merged_slime_weak(team, x) ==
    [Blank EXCEPT !.live = TRUE, !.team = team, !.kind = "merged", !.pos = x,
                  !.health = NormalHealth, !.healthChanged = TRUE,
                  !.animType = "BigJumpIdle", !.typeChanged = TRUE,
                  !.anim = DefaultAnim]

\* the merged slime spawned at the midpoint
spawn_merged_slime(team, x) ==
    [Blank EXCEPT !.live = TRUE, !.team = team, !.kind = "merged", !.pos = x,
                  !.health = MergedHealth, !.healthChanged = TRUE,
                  !.animType = "BigJumpIdle", !.typeChanged = TRUE,
                  !.anim = DefaultAnim]

\* the loop as it would be without the already_merged set
RECURSIVE ExecuteLoop_unclaimed(_, _, _)
ExecuteLoop_unclaimed(W, order, already_merged) ==
    IF order = <<>> THEN <<>>
    ELSE LET e == Head(order)
             p == W[e].merging.partner
         IN  IF ~(p \in Ent /\ execute_filter(W[p]))
             THEN ExecuteLoop_unclaimed(W, Tail(order), already_merged)
             ELSE IF Dist(W[e].pos, W[p].pos) > ExecuteDist
             THEN ExecuteLoop_unclaimed(W, Tail(order), already_merged)
             ELSE << [entity |-> e, partner |-> p, team |-> W[e].team,
                      midpoint |-> (W[e].pos + W[p].pos) \div 2] >>
                  \o ExecuteLoop_unclaimed(W, Tail(order), already_merged)

\* the loop of execute_merge_system: the merges it decides on, in order
RECURSIVE ExecuteLoop(_, _, _)
ExecuteLoop(W, order, already_merged) ==
    IF order = <<>> THEN <<>>
    ELSE LET e == Head(order)
             p == W[e].merging.partner
         IN  IF e \in already_merged
             THEN ExecuteLoop(W, Tail(order), already_merged)
             ELSE IF ~(p \in Ent /\ execute_filter(W[p]))
             THEN ExecuteLoop(W, Tail(order), already_merged)
             ELSE IF Dist(W[e].pos, W[p].pos) > ExecuteDist
             THEN ExecuteLoop(W, Tail(order), already_merged)
             ELSE << [entity |-> e, partner |-> p, team |-> W[e].team,
                      midpoint |-> (W[e].pos + W[p].pos) \div 2] >>
                  \o ExecuteLoop(W, Tail(order), already_merged \cup {e, p})

Merges(W) == ExecuteLoop(W, InOrder({e \in Ent : execute_filter(W[e])}), {})

\* the commands of the merges: despawn both, spawn one
RECURSIVE ApplyMerges(_, _, _)
ApplyMerges(W, id, merges) ==
    IF merges = <<>> THEN W
    ELSE LET m  == Head(merges)
             W1 == [W EXCEPT ![m.entity] = Blank, ![m.partner] = Blank]
             W2 == IF id <= MaxEnt
                   THEN [W1 EXCEPT ![id] = spawn_merged_slime(m.team, m.midpoint)]
                   ELSE W1
         IN  ApplyMerges(W2, id + 1, Tail(merges))

execute_merge_system(W, R) ==
    << ApplyMerges(W, R.nextId, Merges(W)),
       [R EXCEPT !.nextId = R.nextId + Len(Merges(W))] >>

ExecuteMergeStep ==
    /\ Cur = "execute_merge_system"
    /\ LET r == execute_merge_system(world, res)
           IN  /\ Step("execute_merge_system", r[1], r[2],
                       [NoEv EXCEPT !.merges =
                           [i \in 1..Len(Merges(world)) |->
                               [entity |-> Merges(world)[i].entity,
                                partner |-> Merges(world)[i].partner,
                                child |-> res.nextId + i - 1,
                                kinds |-> << world[Merges(world)[i].entity].kind,
                                             world[Merges(world)[i].partner].kind >>,
                                healths |-> << world[Merges(world)[i].entity].health,
                                               world[Merges(world)[i].partner].health >>]]])
               /\ UNCHANGED kills

\* cancel_merge_system: a Merging unit whose partner is gone or dying loses
\* Merging and its children
cancel_merge_system(W) ==
    [e \in Ent |->
        IF W[e].live /\ W[e].merging.on /\ ~alive_check(W, W[e].merging.partner)
        THEN [W[e] EXCEPT !.merging = NoMerge, !.bang = 0, !.vfx = <<>>, !.shield = FALSE]
        ELSE W[e]]

CancelMergeStep ==
    /\ Cur = "cancel_merge_system"
    /\ Step("cancel_merge_system", cancel_merge_system(world), res, NoEv)
    /\ UNCHANGED kills

\* ------------------------------------------------------------------ frame
EndTick ==
    /\ Cur = "end"
    /\ ticks < MaxTicks
    /\ ticks' = ticks + 1
    /\ pc' = 1
    /\ gone' = [e \in Ent |-> IF gone[e] >= 0 THEN Min(gone[e] + 1, 2) ELSE gone[e]]
    /\ ev' = NoEv
    /\ UNCHANGED <<world, res, sched, kills>>

Next ==
    \/ KillStep
    \/ SpawnStep
    \/ PreGameStep
    \/ PickTargetStep
    \/ MoveStep
    \/ FaceStep
    \/ PickAttackStep
    \/ AttackStep
    \/ HitFrameCheckStep
    \/ AttackCleanupStep
    \/ StunTimerStep
    \/ IceVfxCleanupStep
    \/ CheckMergeStep
    \/ OnAddPreMergeStep
    \/ PreMergeStep
    \/ MergeWalkStep
    \/ ExecuteMergeStep
    \/ CancelMergeStep
    \/ SetDyingStep
    \/ WhenStartsDyingStep
    \/ WhenFinishesDyingStep
    \/ SwitchAnimationStep
    \/ AnimationStep
    \/ EndTick

Spec == Init /\ [][Next]_vars

\* ------------------------------------------------- the loop without an end
\* The app runs its schedule every frame for as long as the window is open.
\* The loop below is the same schedule with no last frame; it starts from a
\* smaller player army so that its whole state graph can be searched.
LiveInit ==
    /\ world = [e \in Ent |-> Blank]
    /\ res = [preGameOn |-> TRUE, preGameElapsed |-> 0, mergeElapsed |-> 0,
              spawnOn |-> TRUE, spawnFinished |-> FALSE,
              playerNormal |-> LivePlayers, playerTanks |-> PlayerTanks,
              enemyNormal |-> EnemyNormal, enemyTanks |-> EnemyTanks, playerWizards |-> 0,
              playerXs |-> PlayerXs, nextId |-> 1,
              roundResult |-> "none"]
    /\ sched \in 1..Len(Schedules)
    /\ pc = 1
    /\ ticks = 0
    /\ kills = 0
    /\ gone = [e \in Ent |-> 0 - 1]
    /\ ev = NoEv

EndFrame ==
    /\ Cur = "end"
    /\ pc' = 1
    /\ gone' = [e \in Ent |-> IF gone[e] >= 0 THEN Min(gone[e] + 1, 2) ELSE gone[e]]
    /\ ev' = NoEv
    /\ UNCHANGED <<world, res, sched, kills, ticks>>

Loop ==
    \/ KillStep
    \/ SpawnStep
    \/ PreGameStep
    \/ PickTargetStep
    \/ MoveStep
    \/ FaceStep
    \/ PickAttackStep
    \/ AttackStep
    \/ HitFrameCheckStep
    \/ AttackCleanupStep
    \/ StunTimerStep
    \/ IceVfxCleanupStep
    \/ CheckMergeStep
    \/ OnAddPreMergeStep
    \/ PreMergeStep
    \/ MergeWalkStep
    \/ ExecuteMergeStep
    \/ CancelMergeStep
    \/ SetDyingStep
    \/ WhenStartsDyingStep
    \/ WhenFinishesDyingStep
    \/ SwitchAnimationStep
    \/ AnimationStep
    \/ EndFrame

\* the scheduler's guarantee: the position in the schedule keeps moving, so
\* every system runs in every frame and frames follow each other for ever
Frame == \E i \in 1..(Len(Order) + 1) : pc' = i /\ i # pc

LiveSpec == LiveInit /\ [][Loop]_vars /\ WF_pc(Frame)

\* ------------------------------------------------------------ a skirmish
\* The same loop for another battle: two or three player units, at most one
\* of them a tank, some spawned far behind the others, against one enemy
\* slime, and no key press.
SkirmishInit ==
    /\ \E n \in 1..SkirmishPlayers, t \in 0..SkirmishTanks :
          /\ n + t \in 2..SkirmishPlayers
          /\ res =
                [preGameOn |-> TRUE, preGameElapsed |-> 0, mergeElapsed |-> 0,
                 spawnOn |-> TRUE, spawnFinished |-> FALSE,
                 playerNormal |-> n, playerTanks |-> t,
                 enemyNormal |-> SkirmishEnemies, enemyTanks |-> 0, playerWizards |-> 0,
                 playerXs |-> SkirmishXs, nextId |-> 1,
              roundResult |-> "none"]
    /\ world = [e \in Ent |-> Blank]
    /\ sched \in 1..Len(Schedules)
    /\ pc = 1
    /\ ticks = 0
    /\ kills = MaxKills
    /\ gone = [e \in Ent |-> 0 - 1]
    /\ ev = NoEv

SkirmishSpec == SkirmishInit /\ [][Loop]_vars

\* the skirmish with the frames that Bevy's runner never stops delivering
SkirmishLiveSpec == SkirmishInit /\ [][Loop]_vars /\ WF_pc(Frame)


\* ------------------------------------------- two systems in one sync window
\* A system's commands are applied at the next sync point, not when it
\* queues them.  Below, set_dying_system and execute_merge_system read the
\* same world, and their queues are applied one after the other, in either
\* order.  A command on an entity that exists is applied; an insert whose
\* entity an earlier command of the window despawned fails ("Entity
\* despawned", combat.rs:277-288, special_abilities.rs:269-270) and is
\* recorded in ev.errors.
SetDyingTargets(W) ==
    {e \in Ent : W[e].live /\ ~W[e].dying /\ W[e].healthChanged /\ W[e].health <= 0}

\* commands.entity(entity).insert(Dying), queued in W and applied to W1
InsertDying(W, W1) ==
    [e \in Ent |->
        IF e \in SetDyingTargets(W) /\ W1[e].live
        THEN [W1[e] EXCEPT !.dying = TRUE, !.dyingAdded = TRUE, !.healthChanged = FALSE]
        ELSE [W1[e] EXCEPT !.healthChanged =
                 IF W[e].live THEN FALSE ELSE W1[e].healthChanged]]

FailedInserts(W, W1) == {e \in SetDyingTargets(W) : ~W1[e].live}

SyncWindowStep ==
    /\ Cur = "execute_merge_system"
    /\ sched > Len(Schedules)
    /\ \E mergeFirst \in BOOLEAN :
          LET r  == execute_merge_system(world, res)
              W2 == IF mergeFirst
                    THEN InsertDying(world, r[1])
                    ELSE ApplyMerges(set_dying_system(world), res.nextId, Merges(world))
          IN  Step("execute_merge_system", W2, r[2],
                   [NoEv EXCEPT !.errors =
                       IF mergeFirst THEN FailedInserts(world, r[1]) ELSE {}])
    /\ UNCHANGED kills

SyncWindowInit ==
    /\ world = [e \in Ent |-> Blank]
    /\ res = [preGameOn |-> TRUE, preGameElapsed |-> 0, mergeElapsed |-> 0,
              spawnOn |-> TRUE, spawnFinished |-> FALSE,
              playerNormal |-> LivePlayers, playerTanks |-> 0,
              enemyNormal |-> SkirmishEnemies, enemyTanks |-> 0, playerWizards |-> 0,
              playerXs |-> SkirmishXs, nextId |-> 1,
              roundResult |-> "none"]
    /\ sched = Len(Schedules) + 1
    /\ pc = 1
    /\ ticks = 0
    /\ kills = 0
    /\ gone = [e \in Ent |-> 0 - 1]
    /\ ev = NoEv

SyncWindowLoop ==
    \/ KillStep
    \/ SpawnStep
    \/ PreGameStep
    \/ PickTargetStep
    \/ MoveStep
    \/ FaceStep
    \/ PickAttackStep
    \/ AttackStep
    \/ HitFrameCheckStep
    \/ AttackCleanupStep
    \/ StunTimerStep
    \/ IceVfxCleanupStep
    \/ CheckMergeStep
    \/ OnAddPreMergeStep
    \/ PreMergeStep
    \/ MergeWalkStep
    \/ SyncWindowStep
    \/ CancelMergeStep
    \/ WhenStartsDyingStep
    \/ WhenFinishesDyingStep
    \/ SwitchAnimationStep
    \/ AnimationStep
    \/ EndFrame

SyncWindowSpec == SyncWindowInit /\ [][SyncWindowLoop]_vars

\* ---------------------------------------------------------- end_round.rs
\* the run condition as it would be without the RoundResult check
round_end_runs_always(R) == ~R.preGameOn

\* run_if(not(resource_exists::<RoundResult>)
\*        .and(not(resource_exists::<PreGameTimer>)))
round_end_runs(R) == R.roundResult = "none" /\ ~R.preGameOn

\* Query<&Team>: every entity that carries a Team, Dying ones included
HasTeam(W, team) == \E e \in Ent : W[e].live /\ W[e].team = team

\* only spawn_normal_slime gives its unit a VictoryAnimation
HasVictoryAnimation(u) == u.live /\ u.kind = "normal"

\* the system as it would be if the message looked at the enemy team only
check_round_end_system_enemyOnly(W, R) ==
    LET has_player == HasTeam(W, "Player")
        has_enemy  == HasTeam(W, "Enemy")
        message    == IF ~has_enemy THEN "VICTORY!" ELSE "DEFEAT!"
        winner     == IF has_player THEN "Player"
                      ELSE IF has_enemy THEN "Enemy" ELSE "none"
    IN  IF has_player /\ has_enemy THEN <<W, R, "none">>
        ELSE << [e \in Ent |->
                    IF HasVictoryAnimation(W[e]) /\ W[e].team = winner
                    THEN [W[e] EXCEPT !.animType = "JumpIdle", !.typeChanged = TRUE]
                    ELSE W[e]],
                [R EXCEPT !.roundResult = message],
                message >>

\* check_round_end_system: nothing while both teams have a member; else the
\* message, the RoundResult resource, and the winners' victory animation
check_round_end_system(W, R) ==
    LET has_player == HasTeam(W, "Player")
        has_enemy  == HasTeam(W, "Enemy")
        message    == IF has_player /\ ~has_enemy THEN "VICTORY!" ELSE "DEFEAT!"
        winner     == IF has_player THEN "Player"
                      ELSE IF has_enemy THEN "Enemy" ELSE "none"
    IN  IF has_player /\ has_enemy THEN <<W, R, "none">>
        ELSE << [e \in Ent |->
                    IF HasVictoryAnimation(W[e]) /\ W[e].team = winner
                    THEN [W[e] EXCEPT !.animType = "JumpIdle", !.typeChanged = TRUE]
                    ELSE W[e]],
                [R EXCEPT !.roundResult = message],
                message >>

CheckRoundEndStep ==
    /\ Cur = "check_round_end_system"
    /\ IF round_end_runs(res)
           THEN LET r == check_round_end_system(world, res)
                IN  Step("check_round_end_system", r[1], r[2],
                         [NoEv EXCEPT !.declared = r[3]])
           ELSE Step("check_round_end_system", world, res, NoEv)
    /\ UNCHANGED kills

\* one or two player slimes against one enemy slime; the space bar may
\* kill one unit
RoundInit ==
    /\ world = [e \in Ent |-> Blank]
    /\ \E n \in 1..LivePlayers :
          res = [preGameOn |-> TRUE, preGameElapsed |-> 0, mergeElapsed |-> 0,
                 spawnOn |-> TRUE, spawnFinished |-> FALSE,
                 playerNormal |-> n, playerTanks |-> 0,
                 enemyNormal |-> SkirmishEnemies, enemyTanks |-> 0, playerWizards |-> 0,
                 playerXs |-> PlayerXs, nextId |-> 1,
                 roundResult |-> "none"]
    /\ sched = Len(Schedules) + 2
    /\ pc = 1
    /\ ticks = 0
    /\ kills = 0
    /\ gone = [e \in Ent |-> 0 - 1]
    /\ ev = NoEv

RoundLoop ==
    \/ KillStep
    \/ SpawnStep
    \/ PreGameStep
    \/ PickTargetStep
    \/ MoveStep
    \/ FaceStep
    \/ PickAttackStep
    \/ AttackStep
    \/ HitFrameCheckStep
    \/ AttackCleanupStep
    \/ StunTimerStep
    \/ IceVfxCleanupStep
    \/ CheckMergeStep
    \/ OnAddPreMergeStep
    \/ PreMergeStep
    \/ MergeWalkStep
    \/ ExecuteMergeStep
    \/ CancelMergeStep
    \/ SetDyingStep
    \/ WhenStartsDyingStep
    \/ WhenFinishesDyingStep
    \/ SwitchAnimationStep
    \/ AnimationStep
    \/ CheckRoundEndStep
    \/ EndFrame

RoundSpec == RoundInit /\ [][RoundLoop]_vars

\* two player slimes, some spawned far behind, against one enemy slime, the
\* space bar pressed at most RoundKills times, every frame eventually run
RoundKills == 2

RoundLiveInit ==
    /\ world = [e \in Ent |-> Blank]
    /\ res = [preGameOn |-> TRUE, preGameElapsed |-> 0, mergeElapsed |-> 0,
              spawnOn |-> TRUE, spawnFinished |-> FALSE,
              playerNormal |-> LivePlayers, playerTanks |-> 0,
              enemyNormal |-> SkirmishEnemies, enemyTanks |-> 0, playerWizards |-> 0,
              playerXs |-> SkirmishXs, nextId |-> 1,
              roundResult |-> "none"]
    /\ sched = Len(Schedules) + 2
    /\ pc = 1
    /\ ticks = 0
    /\ kills = MaxKills - RoundKills
    /\ gone = [e \in Ent |-> 0 - 1]
    /\ ev = NoEv

RoundLiveSpec == RoundLiveInit /\ [][RoundLoop]_vars /\ WF_pc(Frame)

\* ------------------------------------------------------------ the muster
\* The spawner and the pre-game timer on their own, for armies of up to
\* MusterNormal normal slimes, MusterTanks tanks and MusterWizards wizards
\* on the player's side and up to MusterEnemies enemy slimes.  Frames last
\* 0.25 s as everywhere in the model, so the 0.1 s spawn timer fires on
\* every frame and the 2 s pre-game timer ends on the eighth.
MusterNormal == 7
MusterTanks == 1
MusterWizards == 1
MusterEnemies == 1
MusterEnt == MusterNormal + MusterTanks + MusterEnemies

MusterInit ==
    /\ world = [e \in 1..MusterEnt |-> Blank]
    /\ \E n \in 0..MusterNormal, t \in 0..MusterTanks, w \in 0..MusterWizards,
          en \in 0..MusterEnemies :
          res = [preGameOn |-> TRUE, preGameElapsed |-> 0, mergeElapsed |-> 0,
                 spawnOn |-> TRUE, spawnFinished |-> FALSE,
                 playerNormal |-> n, playerTanks |-> t,
                 enemyNormal |-> en, enemyTanks |-> 0, playerWizards |-> w,
                 playerXs |-> {Scaled(0 - 125)}, nextId |-> 1,
                 roundResult |-> "none"]
    /\ sched \in {Len(Schedules) + 2 + i : i \in 1..Len(MusterSchedules)}
    /\ pc = 1
    /\ ticks = 0
    /\ kills = MaxKills
    /\ gone = [e \in Ent |-> 0 - 1]
    /\ ev = NoEv

MusterLoop ==
    \/ SpawnStep
    \/ PreGameStep
    \/ EndFrame

MusterSpec == MusterInit /\ [][MusterLoop]_vars /\ WF_pc(Frame)

\* ---------------------------------------------------- targeting on its own
\* pick_target_system applied once to a battlefield of up to four Player
\* slimes and up to two Enemy slimes standing anywhere on the spawn grid,
\* some of them already holding a TargetEntity.
TargetingXs == {Scaled(0 - 125), Scaled(0 - 250), Scaled(0 - 375)}
TargetingEnemyXs == {Scaled(125), Scaled(0 - 300)}
TargetingPlayers == 4

PlayerUnits ==
    {Blank} \cup {[spawn_normal_slime("Player", x) EXCEPT !.target = t] :
                     x \in TargetingXs, t \in {NoEnt, TargetingPlayers + 1}}
EnemyUnits ==
    {Blank} \cup {spawn_normal_slime("Enemy", x) : x \in TargetingEnemyXs}

TargetingInit ==
    /\ \E P \in [1..TargetingPlayers -> PlayerUnits],
          E \in [(TargetingPlayers + 1)..MaxEnt -> EnemyUnits] :
          world = [e \in Ent |-> IF e <= TargetingPlayers THEN P[e] ELSE E[e]]
    /\ res = [preGameOn |-> TRUE, preGameElapsed |-> 0, mergeElapsed |-> 0,
              spawnOn |-> FALSE, spawnFinished |-> FALSE,
              playerNormal |-> 0, playerTanks |-> 0,
              enemyNormal |-> 0, enemyTanks |-> 0, playerWizards |-> 0,
              playerXs |-> TargetingXs, nextId |-> MaxEnt + 1,
              roundResult |-> "none"]
    /\ sched \in 1..Len(Schedules)
    /\ pc = CHOOSE i \in 1..Len(Order) : Order[i] = "pick_target_system"
    /\ ticks = 0
    /\ kills = MaxKills
    /\ gone = [e \in Ent |-> 0 - 1]
    /\ ev = NoEv

TargetingSpec == TargetingInit /\ [][PickTargetStep]_vars

\* ------------------------------------------------ movement.rs: separation
\* unsmush_system on its own: the pass applied, once or twice, to up to four
\* units standing anywhere on a grid that has points closer than the minimum
\* spacing, the same point twice included.  The query's iteration order is
\* not fixed by Bevy; `order` is the order of one run.
min_distance  == Scaled(50)
push_strength == 100
UnsmushUnits  == 4      \* units on the field of the separation pass
UnsmushRuns   == 2      \* runs of the separation pass
UnsmushXs     == {Scaled(0), Scaled(10), Scaled(30), Scaled(45), Scaled(200)}

\* overlap_ratio * push_strength * delta for a pair at distance d, delta 0.25
PushOf(d) == ((Scaled(push_strength) \div 4) * (min_distance - d)) \div min_distance

\* diff.normalize() on the line
Sign(x) == IF x > 0 THEN 1 ELSE IF x < 0 THEN 0 - 1 ELSE 0

\* Phase 3: transform.translation += force, push by push
RECURSIVE ApplyPushes(_, _)
ApplyPushes(W, pushes) ==
    IF pushes = <<>> THEN W
    ELSE ApplyPushes([W EXCEPT ![Head(pushes).entity].pos = @ + Head(pushes).force],
                     Tail(pushes))

\* the two pushes of one pair standing at positions W, if it gets any
PairPush(W, a, b) ==
    LET diff == W[a].pos - W[b].pos
    IN  IF Abs(diff) < min_distance /\ Abs(diff) > 0
        THEN << [entity |-> a, force |-> Sign(diff) * PushOf(Abs(diff))],
                [entity |-> b, force |-> 0 - (Sign(diff) * PushOf(Abs(diff)))] >>
        ELSE <<>>

\* the pushes as they would be if each pair's push were applied before the
\* next pair's distance is taken
RECURSIVE Pushes_eager(_, _)
Pushes_eager(W, pairs) ==
    IF pairs = <<>> THEN <<>>
    ELSE PairPush(W, Head(pairs)[1], Head(pairs)[2])
         \o Pushes_eager(ApplyPushes(W, PairPush(W, Head(pairs)[1], Head(pairs)[2])),
                         Tail(pairs))

\* Phase 2: the pushes of the pairs, in the order the loops visit them, all
\* from the positions W the pass collected
RECURSIVE Pushes(_, _)
Pushes(W, pairs) ==
    IF pairs = <<>> THEN <<>>
    ELSE PairPush(W, Head(pairs)[1], Head(pairs)[2]) \o Pushes(W, Tail(pairs))

\* unsmush_system(query: Query<(Entity, &mut Transform), With<Sprite>>)
unsmush_system(W, order) == ApplyPushes(W, Pushes(W, PairsFrom(order)))

\* the orders in which a query may yield a set of entities
RECURSIVE Orders(_)
Orders(S) ==
    IF S = {} THEN {<<>>}
    ELSE UNION {{<<x>> \o q : q \in Orders(S \ {x})} : x \in S}

UnsmushStep ==
    /\ ticks < UnsmushRuns
    /\ \E order \in Orders(Live(world)) :
          /\ world' = unsmush_system(world, order)
          /\ ev' = [NoEv EXCEPT !.sys = "unsmush_system",
                                !.pushes = Pushes(world, PairsFrom(order))]
    /\ ticks' = ticks + 1
    /\ UNCHANGED <<res, sched, pc, kills, gone>>

FieldUnits == {Blank} \cup {spawn_normal_slime("Player", x) : x \in UnsmushXs}

UnsmushInit ==
    /\ \E F \in [1..UnsmushUnits -> FieldUnits] :
          world = [e \in Ent |-> IF e <= UnsmushUnits THEN F[e] ELSE Blank]
    /\ res = [preGameOn |-> TRUE, preGameElapsed |-> 0, mergeElapsed |-> 0,
              spawnOn |-> FALSE, spawnFinished |-> FALSE,
              playerNormal |-> 0, playerTanks |-> 0,
              enemyNormal |-> 0, enemyTanks |-> 0, playerWizards |-> 0,
              playerXs |-> UnsmushXs, nextId |-> MaxEnt + 1,
              roundResult |-> "none"]
    /\ sched = 1
    /\ pc = 1
    /\ ticks = 0
    /\ kills = MaxKills
    /\ gone = [e \in Ent |-> 0 - 1]
    /\ ev = NoEv

UnsmushSpec == UnsmushInit /\ [][UnsmushStep]_vars

\* ------------------------------------------- animation.rs: one clip's state
\* AnimationState::update on its own, with the frame timer it keeps.  Times
\* are in milliseconds.  `world` is the AnimationState of one unit, `res`
\* says whether the unit carries a StunTimer, and `ev` is what the last
\* operation was, what update returned and how often it has returned true
\* for this AnimationState.
ClipDurations == {100, 200}          \* frame_duration of the clips
ClipFrames    == {0, 3, 5, 6}        \* total_frames: Default, hurt, attack, the rest
ClipDeltas    == {50, 100, 250}      \* frame times handed to update
ClipMaxTimer  == 600                 \* frame_timer values followed
ClipMaxReports == 2                  \* returns of true counted

\* AnimationState::new
AnimationState_new(frame_duration, total_frames, looping) ==
    [frame_index |-> 0, frame_timer |-> 0, frame_duration |-> frame_duration,
     looping |-> looping, finished |-> FALSE, total_frames |-> total_frames]

\* AnimationState::update(delta_time): the new state and the returned bool
AnimationState_update(s, delta_time) ==
    IF s.finished \/ s.total_frames = 0 THEN [state |-> s, returned |-> FALSE]
    ELSE
    LET timer == s.frame_timer + delta_time IN
    IF timer >= s.frame_duration
    THEN IF s.frame_index + 1 >= s.total_frames
         THEN IF s.looping
              THEN [state |-> [s EXCEPT !.frame_timer = timer - s.frame_duration,
                                        !.frame_index = 0],
                    returned |-> FALSE]
              ELSE [state |-> [s EXCEPT !.frame_timer = timer - s.frame_duration,
                                        !.frame_index = s.total_frames - 1,
                                        !.finished = TRUE],
                    returned |-> TRUE]
         ELSE [state |-> [s EXCEPT !.frame_timer = timer - s.frame_duration,
                                   !.frame_index = s.frame_index + 1],
               returned |-> FALSE]
    ELSE [state |-> [s EXCEPT !.frame_timer = timer], returned |-> FALSE]

\* animation_system's call of update for this unit
UpdateClip ==
    \E delta_time \in ClipDeltas :
        LET r == AnimationState_update(world, delta_time) IN
        /\ world.frame_timer + delta_time <= ClipMaxTimer
        /\ world' = r.state
        /\ ev' = [op |-> "update", returned |-> r.returned,
                  reports |-> IF r.returned
                              THEN Min(ev.reports + 1, ClipMaxReports)
                              ELSE ev.reports]
        /\ UNCHANGED <<res, sched, pc, ticks, kills, gone>>

\* on_hit_observer's stun: StunTimer inserted, anim_state.finished = true
FreezeClip ==
    /\ world' = [world EXCEPT !.finished = TRUE]
    /\ res' = [res EXCEPT !.stunned = TRUE]
    /\ ev' = [ev EXCEPT !.op = "freeze", !.returned = FALSE]
    /\ UNCHANGED <<sched, pc, ticks, kills, gone>>

\* stun_timer_system at the end of the stun: anim_state.finished = false
ResumeClip ==
    /\ res.stunned
    /\ world' = [world EXCEPT !.finished = FALSE]
    /\ res' = [res EXCEPT !.stunned = FALSE]
    /\ ev' = [ev EXCEPT !.op = "resume", !.returned = FALSE]
    /\ UNCHANGED <<sched, pc, ticks, kills, gone>>

ClipInit ==
    /\ \E frame_duration \in ClipDurations, total_frames \in ClipFrames,
          looping \in BOOLEAN :
          world = AnimationState_new(frame_duration, total_frames, looping)
    /\ res = [stunned |-> FALSE]
    /\ sched = 1
    /\ pc = 1
    /\ ticks = 0
    /\ kills = 0
    /\ gone = <<>>
    /\ ev = [op |-> "new", returned |-> FALSE, reports |-> 0]

ClipLoop ==
    \/ UpdateClip
    \/ FreezeClip
    \/ ResumeClip

ClipSpec == ClipInit /\ [][ClipLoop]_vars

\* ------------------------------------- systems/: the soldier-based combat
\* The two soldiers of spawn_soldiers with the attacks of setup_attacks, run
\* by the chain update_attack_cooldowns, cleanup_finished_attacks,
\* attack_system, animation_system, death_check_system,
\* death_animation_system, and by a second order that starts each frame with
\* attack_system.  `world` maps each soldier to its components; `children`
\* are its AttackInstance children.  Times are in milliseconds and a frame
\* takes FrameMs.  A despawned AttackInstance leaves its soldier's Children,
\* as the comment of cleanup_finished_attacks takes it to.  The random picks
\* of attack_system are `rolls`; Bevy does not fix the order in which the
\* soldier query is read, `order` is the order of one run.
Soldiers      == 2
SoldierHealth == 100        \* Health::new(100)
FrameMs       == 500
MaxStarted    == 2          \* attacks counted per soldier
SoldierIds    == 1..Soldiers

DamageTarget(amount) == [kind |-> "DamageTarget", amount |-> amount]
DamageSelf(amount)   == [kind |-> "DamageSelf", amount |-> amount]
HealSelf(amount)     == [kind |-> "HealSelf", amount |-> amount]

\* setup_attacks: AttackId(i) is AttackDatabase[i + 1]
AttackDatabase ==
    << [cooldown |-> 1000, on_success |-> <<DamageTarget(15)>>,
        on_fail |-> <<>>, on_use |-> <<>>],
       [cooldown |-> 2000, on_success |-> <<DamageTarget(30)>>,
        on_fail |-> <<DamageSelf(10)>>, on_use |-> <<>>],
       [cooldown |-> 3000, on_success |-> <<DamageTarget(40)>>,
        on_fail |-> <<>>, on_use |-> <<DamageSelf(5)>>],
       [cooldown |-> 2500, on_success |-> <<DamageTarget(10), HealSelf(5)>>,
        on_fail |-> <<>>, on_use |-> <<>>] >>

\* spawn_soldiers
available_attacks(is_player) == IF is_player THEN <<0, 1, 3>> ELSE <<0, 2>>

Soldier(is_player) ==
    [live |-> TRUE, is_player |-> is_player, current |-> SoldierHealth,
     max |-> SoldierHealth, dying |-> FALSE, anim |-> NewAnim("JumpIdle"),
     children |-> <<>>, started |-> 0]

SoldierSchedules ==
    << << "update_attack_cooldowns", "cleanup_finished_attacks", "attack_system",
          "animation_system", "death_check_system", "death_animation_system" >>,
       << "attack_system", "cleanup_finished_attacks", "update_attack_cooldowns",
          "death_animation_system", "death_check_system", "animation_system" >> >>

SoldierCur ==
    IF pc <= Len(SoldierSchedules[sched]) THEN SoldierSchedules[sched][pc] ELSE "end"

\* AttackInstance::tick
tick(a, delta) ==
    IF a.cooldown_remaining > 0
    THEN [a EXCEPT !.cooldown_remaining = a.cooldown_remaining - delta]
    ELSE a

\* AttackInstance::is_finished
is_finished(a) == a.cooldown_remaining <= 0

update_attack_cooldowns(W) ==
    [e \in SoldierIds |->
        [W[e] EXCEPT !.children =
            [i \in 1..Len(W[e].children) |-> tick(W[e].children[i], FrameMs)]]]

cleanup_finished_attacks(W) ==
    [e \in SoldierIds |->
        [W[e] EXCEPT !.children = SelectSeq(W[e].children, LAMBDA a : ~is_finished(a))]]

\* Phase 1 of attack_system: the soldiers of the query, Without<Dying>
soldier_data(W, order) == SelectSeq(order, LAMBDA e : W[e].live /\ ~W[e].dying)

player_alive(W, data) ==
    \E i \in 1..Len(data) : W[data[i]].current > 0 /\ W[data[i]].is_player
enemy_alive(W, data) ==
    \E i \in 1..Len(data) : W[data[i]].current > 0 /\ ~W[data[i]].is_player

\* Phase 2 with the busy check left out
pending_attacks_busy(W, data, rolls) ==
    LET enemies(e) == SelectSeq(data, LAMBDA x : W[x].current > 0
                                          /\ W[x].is_player # W[e].is_player)
        attacks(e) == available_attacks(W[e].is_player)
        ready == SelectSeq(data, LAMBDA e : /\ W[e].current > 0
                                            /\ enemies(e) # <<>>)
    IN  [i \in 1..Len(ready) |->
            LET e == ready[i] IN
            [attacker |-> e,
             attack_id |-> attacks(e)[(rolls[e].attack % Len(attacks(e))) + 1],
             target |-> enemies(e)[(rolls[e].target % Len(enemies(e))) + 1],
             hit |-> rolls[e].hit]]

\* Phase 2: who attacks, with which attack, whom, and whether it hits
pending_attacks(W, data, rolls) ==
    LET enemies(e) == SelectSeq(data, LAMBDA x : W[x].current > 0
                                          /\ W[x].is_player # W[e].is_player)
        attacks(e) == available_attacks(W[e].is_player)
        ready == SelectSeq(data, LAMBDA e : /\ W[e].current > 0
                                            /\ W[e].children = <<>>
                                            /\ enemies(e) # <<>>)
    IN  [i \in 1..Len(ready) |->
            LET e == ready[i] IN
            [attacker |-> e,
             attack_id |-> attacks(e)[(rolls[e].attack % Len(attacks(e))) + 1],
             target |-> enemies(e)[(rolls[e].target % Len(enemies(e))) + 1],
             hit |-> rolls[e].hit]]

\* the effects of one pending attack: on_use, then on_success or on_fail
effects_to_apply(p) ==
    LET def == AttackDatabase[p.attack_id + 1]
    IN  def.on_use \o (IF p.hit THEN def.on_success ELSE def.on_fail)

\* resolve_effect and Phase 4 for one effect
apply_effect(W, p, effect) ==
    CASE effect.kind = "DamageTarget" ->
            [W EXCEPT ![p.target].current = IF @ - effect.amount > 0
                                            THEN @ - effect.amount ELSE 0]
      [] effect.kind = "DamageSelf" ->
            [W EXCEPT ![p.attacker].current = IF @ - effect.amount > 0
                                              THEN @ - effect.amount ELSE 0]
      [] effect.kind = "HealSelf" ->
            [W EXCEPT ![p.attacker].current = Min(@ + effect.amount, W[p.attacker].max)]

RECURSIVE apply_effects(_, _, _)
apply_effects(W, p, effects) ==
    IF effects = <<>> THEN W
    ELSE apply_effects(apply_effect(W, p, Head(effects)), p, Tail(effects))

\* Phase 3 and Phase 4: the AttackInstance child, then the effects
RECURSIVE apply_pending(_, _)
apply_pending(W, pending) ==
    IF pending = <<>> THEN W
    ELSE LET p == Head(pending)
             spawned == [W EXCEPT ![p.attacker].children =
                            Append(@, [attack_id |-> p.attack_id,
                                       cooldown_remaining |->
                                           AttackDatabase[p.attack_id + 1].cooldown]),
                                    ![p.attacker].started = Min(@ + 1, MaxStarted)]
         IN  apply_pending(apply_effects(spawned, p, effects_to_apply(p)), Tail(pending))

soldier_attack_system(W, order, rolls) ==
    LET data == soldier_data(W, order) IN
    IF ~player_alive(W, data) \/ ~enemy_alive(W, data) THEN W
    ELSE apply_pending(W, pending_attacks(W, data, rolls))

\* animation_system, for the Death clip that death_animation_system waits for
soldier_animation_system(W) ==
    [e \in SoldierIds |->
        IF W[e].live /\ W[e].dying THEN [W[e] EXCEPT !.anim = Update(@)] ELSE W[e]]

death_check_system(W) ==
    [e \in SoldierIds |->
        IF W[e].live /\ ~W[e].dying /\ W[e].current <= 0
        THEN [W[e] EXCEPT !.dying = TRUE, !.anim = NewAnim("Death")]
        ELSE W[e]]

\* the soldier is despawned with its children
death_animation_system(W) ==
    [e \in SoldierIds |->
        IF W[e].live /\ W[e].dying /\ W[e].anim.finished /\ W[e].anim.clip = "Death"
        THEN [W[e] EXCEPT !.live = FALSE, !.children = <<>>]
        ELSE W[e]]

\* one enemy at most: the pick of the target has one outcome
Rolls == [attack : 0..2, target : {0}, hit : BOOLEAN]

SoldierStep ==
    /\ SoldierCur # "end"
    /\ \/ /\ SoldierCur = "attack_system"
          /\ \E order \in Orders(SoldierIds), r1 \in Rolls, r2 \in Rolls :
                world' = soldier_attack_system(world, order, <<r1, r2>>)
       \/ /\ SoldierCur # "attack_system"
          /\ world' =
               CASE SoldierCur = "update_attack_cooldowns" -> update_attack_cooldowns(world)
                 [] SoldierCur = "cleanup_finished_attacks" -> cleanup_finished_attacks(world)
                 [] SoldierCur = "animation_system" -> soldier_animation_system(world)
                 [] SoldierCur = "death_check_system" -> death_check_system(world)
                 [] SoldierCur = "death_animation_system" -> death_animation_system(world)
    /\ ev' = [sys |-> SoldierCur,
              busy |-> {e \in SoldierIds : world[e].children # <<>>},
              alive |-> {e \in SoldierIds : world[e].live /\ world[e].current > 0}]
    /\ pc' = pc + 1
    /\ UNCHANGED <<res, sched, ticks, kills, gone>>

SoldierEndFrame ==
    /\ SoldierCur = "end"
    /\ pc' = 1
    /\ UNCHANGED <<world, res, sched, ticks, kills, gone, ev>>

SoldierInit ==
    /\ world = [e \in SoldierIds |-> Soldier(e = 1)]
    /\ res = [is_over |-> FALSE]
    /\ sched \in 1..Len(SoldierSchedules)
    /\ pc = 1
    /\ ticks = 0
    /\ kills = 0
    /\ gone = <<>>
    /\ ev = [sys |-> "none", busy |-> {}, alive |-> SoldierIds]

SoldierLoop ==
    \/ SoldierStep
    \/ SoldierEndFrame

SoldierSpec == SoldierInit /\ [][SoldierLoop]_vars

\* ================================================================= claims

\* the TargetEntity of a unit, if the unit has one
HasTarget(e) == world[e].live /\ world[e].target # NoEnt

\* ---- C1 --------------------------------------------------------------
\* C1: no unit carries ActiveAttack together with PreMerging or Merging, in
\* any state the systems leave: a unit paired for a merge neither has nor
\* acquires an ActiveAttack during the telegraph or the walk.
C1_NoAttackWhilePaired ==
    \A e \in Ent :
        world[e].live => ~(world[e].attack.on /\ (world[e].pre.on \/ world[e].merging.on))

\* ---- C2 --------------------------------------------------------------
\* C2: a unit is never in PreMerging and Merging at once, and for every unit
\* A (not Dying) that carries PreMerging or Merging with partner B: B is not
\* A, and while B exists B carries the same component naming A.  (A partner
\* that is Dying or despawned is what cancels the pair.)
C2_PartnersSymmetric ==
    \A a \in Ent :
        /\ ~(world[a].pre.on /\ world[a].merging.on)
        /\ (world[a].live /\ ~world[a].dying /\ world[a].pre.on) =>
              LET b == world[a].pre.partner
              IN  /\ b # a
                  /\ b \in Ent
                  /\ world[b].live => (world[b].pre.on /\ world[b].pre.partner = a)
        /\ (world[a].live /\ ~world[a].dying /\ world[a].merging.on) =>
              LET b == world[a].merging.partner
              IN  /\ b # a
                  /\ b \in Ent
                  /\ world[b].live =>
                        (world[b].merging.on /\ world[b].merging.partner = a)

\* a pair in the walk phase, both partners alive
C2_Witness ==
    \E a \in Ent, b \in Ent :
        /\ a # b /\ world[a].live /\ world[b].live
        /\ world[a].merging.on /\ world[a].merging.partner = b
        /\ world[b].merging.on /\ world[b].merging.partner = a
        /\ ev.sys = "pre_merge_system"

\* ---- C3 --------------------------------------------------------------
TeamCount(W, team) == Cardinality({e \in Ent : W[e].live /\ W[e].team = team})

MergesOf(ms, team) ==
    Cardinality({i \in 1..Len(ms) : world[ms[i].entity].team = team})

\* C3: a run of execute_merge_system despawns exactly the two partners of
\* every merge it executes and spawns exactly one unit per merge; the merges
\* of one run share no unit, so each lowers its team's count by one.
C3_MergeTwoIntoOne ==
    [][ Cur = "execute_merge_system" =>
          LET ms == ev'.merges
              I  == 1..Len(ms)
          IN  /\ \A i \in I :
                    /\ ms[i].entity # ms[i].partner
                    /\ world[ms[i].entity].live /\ world[ms[i].partner].live
                    /\ world[ms[i].entity].team = world[ms[i].partner].team
                    /\ ~world[ms[i].child].live
                    /\ world'[ms[i].child].live
                    /\ world'[ms[i].child].team = world[ms[i].entity].team
              /\ \A i \in I, j \in I :
                    i # j => /\ {ms[i].entity, ms[i].partner}
                                  \cap {ms[j].entity, ms[j].partner} = {}
                             /\ ms[i].child # ms[j].child
              /\ Live(world) \ Live(world') =
                    UNION {{ms[i].entity, ms[i].partner} : i \in I}
              /\ Live(world') \ Live(world) = {ms[i].child : i \in I}
              /\ \A team \in {"Player", "Enemy"} :
                    TeamCount(world', team) = TeamCount(world, team) - MergesOf(ms, team)
      ]_vars

\* a merge was executed: its child is alive and its partners are gone
C3_Witness ==
    /\ ev.sys = "execute_merge_system"
    /\ Len(ev.merges) >= 1
    /\ world[ev.merges[1].child].live
    /\ ~world[ev.merges[1].entity].live

\* ---- C4 --------------------------------------------------------------
\* the units hit_frame_check_system found at or past the hit frame
PastHitFrame(e) ==
    /\ world[e].live /\ world[e].attack.on /\ world[e].anim.on
    /\ world[e].anim.frame_index >= HitFrame

\* C4 as stated: every ActiveAttack fires its hit exactly once, on the first
\* run of the check that finds the frame index at or past the hit frame.
C4_HitExactlyOnce ==
    /\ \A e \in Ent : world[e].attack.on => world[e].hits <= 1
    /\ ev.sys = "hit_frame_check_system" =>
          \A e \in Ent : PastHitFrame(e) => world[e].hits = 1

\* C4 as amended: the hit of an ActiveAttack never fires twice; it fires on
\* the first run of the check that finds the unit not Dying with its frame
\* index at or past the hit frame, and the flag records that it fired.
C4_HitOncePerAttack ==
    /\ \A e \in Ent :
          world[e].attack.on =>
              /\ world[e].hits <= 1
              /\ world[e].attack.hit_triggered <=> (world[e].hits = 1)
    /\ ev.sys = "hit_frame_check_system" =>
          /\ \A i \in 1..Len(ev.hitsFired) : ev.hitsFired[i].frame >= HitFrame
          /\ \A e \in Ent : (PastHitFrame(e) /\ ~world[e].dying) => world[e].hits = 1

\* an attack that fired on an earlier tick is checked again, still past the
\* hit frame, and does not fire
C4_Witness ==
    /\ ev.sys = "hit_frame_check_system"
    /\ \E e \in Ent :
          /\ PastHitFrame(e) /\ ~world[e].dying /\ world[e].hits = 1
          /\ \A i \in 1..Len(ev.hitsFired) : ev.hitsFired[i].attacker # e

\* ---- C5 --------------------------------------------------------------
\* C5: the targeting pass never assigns a TargetEntity to a unit that
\* carries Inert.
C5_InertNeverTargets ==
    ev.sys = "pick_target_system" => \A e \in ev.targeted : ~world[e].inert

\* ---- C6 --------------------------------------------------------------
\* C6: attack selection never inserts ActiveAttack on a unit that carries
\* Inert, a stun leaves its target without ActiveAttack, and so no unit ever
\* carries Inert and ActiveAttack together.
C6_InertNeverAttacks ==
    /\ \A e \in Ent : world[e].live => ~(world[e].inert /\ world[e].attack.on)
    /\ ev.sys = "pick_attack_system" => \A e \in ev.started : ~world[e].inert
    /\ ev.sys = "hit_frame_check_system" =>
          \A r \in ev.stunned : world[r.unit].inert /\ ~world[r.unit].attack.on

\* a unit was stunned in the middle of its own attack
C6_Witness ==
    /\ ev.sys = "hit_frame_check_system"
    /\ \E r \in ev.stunned : r.hadAttack /\ world[r.unit].inert

\* ---- C7 --------------------------------------------------------------
\* C7: the seek pass never moves a unit that carries Inert.
C7_InertNeverSeeks ==
    ev.sys = "move_to_target_system" => \A e \in ev.seekMoved : ~world[e].inert

\* ---- C8 --------------------------------------------------------------
\* the units whose TargetEntity names a despawned entity
Dangling == {e \in Ent : HasTarget(e) /\ ~Exists(world, world[e].target)}

\* C8: a TargetEntity that names a despawned entity is gone by the end of
\* the frame after the despawn, whatever state its holder is in, and no pass
\* (seek, attack selection, facing) uses a position of a despawned target.
C8_LostTargetCleared ==
    /\ \A e \in Dangling :
          \/ gone[world[e].target] = 0
          \/ gone[world[e].target] = 1 /\ Cur # "end"
    /\ ev.staleUse = {}

\* a handle to a despawned target that lasted into the next frame
C8_Witness ==
    \E e \in Dangling : gone[world[e].target] = 1

\* ---- C9 --------------------------------------------------------------
\* C9: when every system of a frame has run, no TargetEntity names a unit
\* tagged Dying.
C9_NoTargetOnDying ==
    Cur = "end" =>
        \A e \in Ent :
            (HasTarget(e) /\ Exists(world, world[e].target))
                => ~world[world[e].target].dying

\* ---- C10 -------------------------------------------------------------
\* C10: every unit when_finishes_dying_system despawns shows its death clip,
\* finished by the clip reaching its last frame.
C10_DespawnAfterDeathClip ==
    ev.sys = "when_finishes_dying_system" =>
        \A r \in ev.deathDespawned : r.clip = r.deathClip /\ r.cause = "clip"

\* ------------------------------------------------------------- C11
\* a unit that is present with health at or below zero
Dead(e) == world[e].live /\ world[e].health <= 0

\* C11: every unit whose health becomes zero or less is eventually tagged
\* Dying and eventually despawned, whatever markers (Inert, ActiveAttack,
\* PreMerging without AnimationState, Merging) it carries.
C11_DeadIsDespawned ==
    \A e \in Ent : /\ Dead(e) ~> (world[e].dying \/ ~world[e].live)
                   /\ Dead(e) ~> ~world[e].live

\* ------------------------------------------------------------- C12
\* the partner named by a unit's PreMerging or Merging component
PartnerOf(e) ==
    IF world[e].pre.on THEN world[e].pre.partner
    ELSE IF world[e].merging.on THEN world[e].merging.partner
    ELSE NoEnt

\* a healthy unit in the telegraph or walk phase whose partner is despawned or Dying
Widowed(e) ==
    /\ world[e].live /\ ~world[e].dying /\ world[e].health > 0
    /\ PartnerOf(e) # NoEnt
    /\ ~alive_check(world, PartnerOf(e))

\* back to normal: no merge tag, no "!" child, a running AnimationState
Recovered(e) ==
    /\ world[e].live
    /\ ~world[e].pre.on /\ ~world[e].merging.on
    /\ world[e].bang = 0
    /\ world[e].anim.on

\* C12: when a unit's merge partner is despawned or tagged Dying before the
\* merge executes, in the telegraph or the walk phase, the survivor loses its
\* PreMerging/Merging tag and its telegraph visual and has a running
\* AnimationState again (unless it dies itself first).
C12_SurvivorRecovers ==
    \A e \in Ent : Widowed(e) ~> (Recovered(e) \/ Dead(e) \/ ~world[e].live)

\* ------------------------------------------------------------- C13
\* execute_merge_system has just replaced the pair a, b by one merged unit
Executed(a, b) ==
    \E i \in 1..Len(ev.merges) :
        /\ {ev.merges[i].entity, ev.merges[i].partner} = {a, b}
        /\ ~world[a].live /\ ~world[b].live
        /\ world[ev.merges[i].child].live
        /\ world[ev.merges[i].child].kind = "merged"

\* the first unit of a pair check_merge_system has just formed
PairedFirst(a) == \E p \in ev.paired : p[1] = a

C14_StunEnds ==
    \A e \in Ent :
        (world[e].live /\ world[e].stun.on)
            ~> (~world[e].live \/ (~world[e].inert /\ ~world[e].stun.on))

\* ------------------------------------------------------------- C15
\* the number of notifications of one kind in a hit's record
CountOf(notes, what) == Cardinality({i \in 1..Len(notes) : notes[i] = what})

\* C15: the stun roll is made only for a target that survived the damage
\* step: no hit inserts Inert/StunTimer on, nor emits a stunned notification
\* for, a target whose health is zero or less after that hit.
C15_StunOnlySurvivors ==
    \A i \in 1..Len(ev.hitLog) :
        (ev.hitLog[i].inert \/ CountOf(ev.hitLog[i].notes, "Stunned") > 0)
            => ev.hitLog[i].after > 0

\* a stunning attacker's hit has just taken its target to zero
C15_Witness ==
    \E i \in 1..Len(ev.hitLog) :
        /\ ev.hitLog[i].resolved /\ CanStun(ev.hitLog[i].kind)
        /\ ev.hitLog[i].before > 0 /\ ev.hitLog[i].after <= 0
        /\ ~ev.hitLog[i].inert

C17_HealthNeverNegative == \A e \in Ent : world[e].live => world[e].health >= 0

\* ------------------------------------------------------------- C18
\* the unit's attack clip has played to its last frame
AttackFinished(u) ==
    /\ u.live /\ u.attack.on /\ u.anim.on
    /\ u.anim.clip = AttackClip(u.kind)
    /\ u.anim.finished /\ u.anim.cause = "clip"

\* C18: an attack of damage 8 on a target of health 10 (no stun) leaves the
\* target at health 2 and the attacker's health and position as they were,
\* and the attacker's ActiveAttack is removed once its attack animation has
\* finished: no run of attack_cleanup_system leaves an ActiveAttack on a
\* unit, neither Dying nor Inert, whose attack clip has finished.
C18_AttackCycle ==
    /\ \A i \in 1..Len(ev.hitLog) :
            LET h == ev.hitLog[i]
            IN  (h.resolved /\ Damage(h.kind) = 8 /\ h.before = 10)
                    => (h.after = 2 /\ h.self)
    /\ ev.sys = "attack_cleanup_system" =>
            \A e \in Ent :
                ~(AttackFinished(world[e]) /\ ~world[e].dying /\ ~world[e].inert)

\* ------------------------------------------------------------- C19
\* C19: every merged unit has health strictly greater than each consumed
\* unit's health, and a per-hit damage strictly greater than the damage of
\* every attack of each consumed unit, whether normal slimes or tanks.
C19_MergedIsStronger ==
    \A i \in 1..Len(ev.merges) :
        LET m == ev.merges[i]
        IN  \A k \in 1..2 :
                /\ world[m.child].health > m.healths[k]
                /\ world[m.child].health > SpawnHealth(m.kinds[k])
                /\ Damage(world[m.child].kind) > Damage(m.kinds[k])

\* a merge has just consumed a tank
C19_Witness ==
    \E i \in 1..Len(ev.merges) :
        /\ "tank" \in {ev.merges[i].kinds[1], ev.merges[i].kinds[2]}
        /\ world[ev.merges[i].child].kind = "merged"

\* ------------------------------------------------------------- C20
\* C20: in one merge check every unit is claimed by at most one pair, and
\* every pair is two distinct units of one team, within the merge proximity,
\* both eligible when the check read them (not Inert, Dying, ActiveAttack,
\* PreMerging, Merging or MergedSlime); a MergedSlime never merges again.
C20_PairsAreSound ==
    [][ /\ Cur = "check_merge_system" =>
            /\ \A p \in ev'.paired :
                  /\ p[1] # p[2]
                  /\ world[p[1]].team = world[p[2]].team
                  /\ Dist(world[p[1]].pos, world[p[2]].pos) <= MergeProximity
                  /\ merge_eligible(world[p[1]]) /\ merge_eligible(world[p[2]])
            /\ \A p \in ev'.paired : \A q \in ev'.paired :
                  p # q => {p[1], p[2]} \cap {q[1], q[2]} = {}
        /\ \A e \in Ent :
              (world'[e].live /\ world'[e].kind = "merged")
                  => (~world'[e].pre.on /\ ~world'[e].merging.on)
      ]_vars

\* a check has just paired two units while a third eligible unit of their
\* team stood within the merge proximity of one of them
C20_Witness ==
    \E p \in ev.paired : \E c \in Ent \ {p[1], p[2]} :
        /\ merge_eligible(world[c])
        /\ world[c].team = world[p[1]].team
        /\ Dist(world[c].pos, world[p[1]].pos) <= MergeProximity
        /\ world[p[1]].pre.on /\ world[p[2]].pre.on

\* ------------------------------------------------------------- C21
\* whether a unit is in a pair, and the meeting point its component holds
Paired(u) == u.live /\ (u.pre.on \/ u.merging.on)
MeetingPoint(u) == IF u.pre.on THEN u.pre.meeting_point ELSE u.merging.meeting_point

\* C21: both members of a pair hold the same meeting point, the midpoint of
\* their positions when check_merge_system paired them, and no later step
\* (telegraph, PreMerging -> Merging, walk) changes it, wherever the units
\* are by then.
C21_MeetingPointFixed ==
    [][ /\ Cur = "check_merge_system" =>
            \A p \in ev'.paired :
                /\ MeetingPoint(world'[p[1]]) = (world[p[1]].pos + world[p[2]].pos) \div 2
                /\ MeetingPoint(world'[p[2]]) = MeetingPoint(world'[p[1]])
        /\ \A e \in Ent :
              (Paired(world[e]) /\ Paired(world'[e]))
                  => MeetingPoint(world'[e]) = MeetingPoint(world[e])
        /\ \A a \in Ent : \A b \in Ent :
              /\ (world'[a].live /\ world'[b].live /\ world'[a].pre.on /\ world'[b].pre.on
                    /\ world'[a].pre.partner = b /\ world'[b].pre.partner = a)
                  => world'[a].pre.meeting_point = world'[b].pre.meeting_point
              /\ (world'[a].live /\ world'[b].live
                    /\ world'[a].merging.on /\ world'[b].merging.on
                    /\ world'[a].merging.partner = b /\ world'[b].merging.partner = a)
                  => world'[a].merging.meeting_point = world'[b].merging.meeting_point
      ]_vars

\* a pair in the walk whose members are no longer where they were paired:
\* the meeting point they hold is not the midpoint of where they stand
C21_Witness ==
    \E a \in Ent : \E b \in Ent :
        /\ a # b /\ world[a].live /\ world[b].live
        /\ world[a].merging.on /\ world[a].merging.partner = b
        /\ world[b].merging.on /\ world[b].merging.partner = a
        /\ world[a].merging.meeting_point = world[b].merging.meeting_point
        /\ world[a].merging.meeting_point # (world[a].pos + world[b].pos) \div 2

\* ------------------------------------------------------------- C22
\* the place of a system in the frame's order
Position(name) == CHOOSE i \in 1..Len(Order) : Order[i] = name

\* the units attack_cleanup_system frees in the step it is about to take
Freed(W) == {e \in Ent : attack_cleanup_filter(W[e]) /\ W[e].anim.finished}

\* C22: within one tick cooldown-cleanup runs before attack-selection: when
\* attack_cleanup_system removes the ActiveAttack of a unit whose attack
\* animation finished, pick_attack_system is still to run in that tick, so
\* the unit can be selected for a new attack in the same tick.
C22_CleanupBeforeSelection ==
    [][ (Cur = "attack_cleanup_system" /\ Freed(world) # {})
            => Position("pick_attack_system") > pc ]_vars

\* ------------------------------------------------------------- C23
\* C23: a unit whose health has reached 0 or less is excluded from attack
\* selection and from merge pairing from that very tick: no step starts an
\* attack for it or gives it PreMerging.
C23_DeadNeverSelected ==
    [][ \A e \in Ent :
            Dead(e) => /\ ~(~world[e].attack.on /\ world'[e].attack.on)
                       /\ ~(~world[e].pre.on /\ world'[e].pre.on) ]_vars

\* ------------------------------------------------------------- C24
\* C24: once a unit is tagged Dying the seek pass no longer moves it: no run
\* of move_to_target_system changes the position of a Dying unit.
C24_DyingStandsStill ==
    [][ Cur = "move_to_target_system" =>
            \A e \in Ent :
                (world[e].live /\ world[e].dying) => world'[e].pos = world[e].pos ]_vars

\* ------------------------------------------------------------- C25
\* C25: while a unit carries PreMerging or Merging, pick_target_system never
\* gives it a TargetEntity and move_to_target_system never moves it.
C25_PairedNotSeeking ==
    [][ /\ Cur = "pick_target_system" =>
              \A e \in Ent : Paired(world[e]) => world'[e].target = world[e].target
        /\ Cur = "move_to_target_system" =>
              \A e \in Ent : Paired(world[e]) => world'[e].pos = world[e].pos ]_vars

\* ------------------------------------------------------------- C26
\* the units of the other team, and the nearest of a set of them
Opposing(e) == {c \in Ent : world[c].live /\ world[c].team # world[e].team}
NearestOf(e, t, S) ==
    t \in S /\ \A d \in S : Dist(world[e].pos, world[t].pos) <= Dist(world[e].pos, world[d].pos)

ClosePairs(W) ==
    {p \in Live(W) \X Live(W) :
        p[1] < p[2] /\ Dist(W[p[1]].pos, W[p[2]].pos) < min_distance}
ApartPairs(W) == {p \in ClosePairs(W) : W[p[1]].pos # W[p[2]].pos}

RECURSIVE SumOver(_, _)
SumOver(S, f) ==
    IF S = {} THEN 0
    ELSE LET x == CHOOSE y \in S : TRUE IN f[x] + SumOver(S \ {x}, f)

\* the two pushes of the pair p are in the list, side by side, equal in
\* magnitude and opposite, each away from the other unit
PushedApart(W, pushes, p) ==
    \E k \in 1..(Len(pushes) - 1) :
        /\ k % 2 = 1
        /\ {pushes[k].entity, pushes[k + 1].entity} = {p[1], p[2]}
        /\ pushes[k].force + pushes[k + 1].force = 0
        /\ Abs(pushes[k].force) = PushOf(Dist(W[p[1]].pos, W[p[2]].pos))
        /\ pushes[k].force * (W[pushes[k].entity].pos - W[pushes[k + 1].entity].pos) >= 0

\* what a run of the pass did besides: only pushed pairs are in the list,
\* the positions it leaves are those of every other visiting order, and the
\* displacements sum to zero
SnapshotResult(W, W2, pushes, pairs) ==
    /\ Len(pushes) = 2 * Cardinality(pairs)
    /\ \A o \in Orders(Live(W)) : unsmush_system(W, o) = W2
    /\ SumOver(Ent, [e \in Ent |-> W2[e].pos - W[e].pos]) = 0

C28_NoFailedCommand == ev.errors = {}

\* ------------------------------------------------------------- C29
\* the hit events of the step whose target no longer exists
LostHits == {i \in 1..Len(ev'.hitLog) : ~Exists(world, ev'.hitLog[i].target)}

\* the entities some hit event of the step found
FoundTargets ==
    {ev'.hitLog[i].target : i \in {j \in 1..Len(ev'.hitLog) : ev'.hitLog[j].resolved}}

\* C29: a hit event whose target or attacker no longer exists when it is
\* resolved changes nothing: the observer returns early, emits no
\* notification and inserts no stun; every entity that is not the existing
\* target of another event of the step keeps its health, position,
\* animation and stun state; and the attacker keeps its attack, now marked
\* as having hit, unless another hit of the step stunned it.
C29_LostHitChangesNothing ==
    [][ ev'.sys = "hit_frame_check_system" =>
          /\ \A i \in LostHits :
                LET h == ev'.hitLog[i]
                IN  /\ ~h.resolved
                    /\ h.notes = <<>>
                    /\ ~h.inert
                    /\ world'[h.target] = world[h.target]
                    /\ \/ world'[h.attacker].attack =
                              [world[h.attacker].attack EXCEPT !.hit_triggered = TRUE]
                       \/ h.attacker \in FoundTargets /\ world'[h.attacker].stun.on
          /\ \A e \in Ent \ FoundTargets :
                /\ world'[e].live = world[e].live
                /\ world'[e].health = world[e].health
                /\ world'[e].pos = world[e].pos
                /\ world'[e].anim = world[e].anim
                /\ world'[e].stun = world[e].stun
                /\ world'[e].inert = world[e].inert ]_vars

C29_Witness ==
    /\ ev.sys = "hit_frame_check_system"
    /\ \E i \in 1..Len(ev.hitLog) :
          /\ gone[ev.hitLog[i].target] >= 0
          /\ ~ev.hitLog[i].resolved
          /\ world[ev.hitLog[i].attacker].attack.on
          /\ world[ev.hitLog[i].attacker].attack.hit_triggered

\* ------------------------------------------------------------- C30
\* C30: a round result is declared at most once per round, never while the
\* pre-game timer exists, and never while both teams still have a member.
C30_ResultDeclaredOnce ==
    [][ ev'.declared # "none" =>
          /\ res.roundResult = "none"
          /\ ~res.preGameOn
          /\ ~(HasTeam(world, "Player") /\ HasTeam(world, "Enemy"))
          /\ res'.roundResult = ev'.declared ]_vars

C30_Witness ==
    /\ ev.declared # "none"
    /\ res.roundResult = ev.declared
    /\ ~res.preGameOn

\* ------------------------------------------------------------- C31
\* a unit that counts as living: present, health above zero, not Dying
Living(e) == world[e].live /\ world[e].health > 0 /\ ~world[e].dying

\* the team has no living member
Wiped(team) == ~\E e \in Ent : Living(e) /\ world[e].team = team

\* C31: once the pre-game phase is over and some team has no living member
\* left, a round result is eventually declared.
C31_ResultEventuallyDeclared ==
    (~res.preGameOn /\ (Wiped("Player") \/ Wiped("Enemy")))
        ~> (res.roundResult # "none")

\* ------------------------------------------------------------- C32
\* C32: the declared result is VICTORY exactly when the player team still
\* has a unit and the enemy team has none, and DEFEAT when the player team
\* has none, both teams gone included; the step changes only units of the
\* team that still has a unit, to their victory clip, and no unit when both
\* teams are gone.
C32_ResultMatchesSurvivors ==
    [][ ev'.declared # "none" =>
          LET has_player == HasTeam(world, "Player")
              has_enemy  == HasTeam(world, "Enemy")
          IN  /\ ev'.declared \in {"VICTORY!", "DEFEAT!"}
              /\ ev'.declared = "VICTORY!" <=> (has_player /\ ~has_enemy)
              /\ ~has_player => ev'.declared = "DEFEAT!"
              /\ \A e \in Ent :
                    world'[e] # world[e] =>
                       /\ world[e].live
                       /\ world[e].team = IF has_player THEN "Player" ELSE "Enemy"
                       /\ world'[e] = [world[e] EXCEPT !.animType = "JumpIdle",
                                                       !.typeChanged = TRUE]
              /\ (~has_player /\ ~has_enemy) => world' = world ]_vars

C32_Witness ==
    /\ ev.declared = "VICTORY!"
    /\ \E e \in Ent : /\ world[e].live /\ world[e].team = "Player"
                      /\ world[e].animType = "JumpIdle" /\ world[e].typeChanged

\* ------------------------------------------------------------- C33
\* C33: a merge never executes during the telegraph: a unit enters Merging
\* only in pre_merge_system and only when its PreMerging timer, ticked in
\* that run, has fully elapsed; no unit carries PreMerging and Merging
\* together; and a merge executes only between two units that, when the
\* system read them, existed, were not Dying, carried Merging and no
\* PreMerging.
C33_NoMergeDuringTelegraph ==
    [][ /\ \A e \in Ent :
              (~world[e].merging.on /\ world'[e].merging.on) =>
                 /\ ev'.sys = "pre_merge_system"
                 /\ world[e].live /\ world[e].pre.on
                 /\ world[e].pre.timer + 1 >= TelegraphTicks
        /\ \A e \in Ent : ~(world'[e].pre.on /\ world'[e].merging.on)
        /\ \A i \in 1..Len(ev'.merges) :
              \A u \in {ev'.merges[i].entity, ev'.merges[i].partner} :
                 /\ world[u].live /\ ~world[u].dying
                 /\ world[u].merging.on /\ ~world[u].pre.on ]_vars

\* a pair whose telegraph has just ended: both in Merging, on the first
\* frame of the animation the transition gave them
C33_Witness ==
    /\ ev.sys = "pre_merge_system"
    /\ \E a \in Ent : \E b \in Ent :
          /\ a # b
          /\ world[a].merging.on /\ world[a].merging.partner = b
          /\ world[b].merging.on /\ world[b].merging.partner = a
          /\ world[a].anim = NewAnim("MoveSmallJump")
          /\ world[b].anim = NewAnim("MoveSmallJump")

\* ------------------------------------------------------------- C34
\* C34: for every unit type, merged units included, an attack whose
\* animation has finished while the unit is neither Dying nor Inert ends, in
\* the cleanup of that frame, with ActiveAttack removed and the unit's
\* AnimationType back on its own idle clip.
C34_EveryUnitReturnsToIdle ==
    ev.sys = "attack_cleanup_system" =>
        \A e \in Ent :
            LET u == world[e]
            IN  (/\ u.live /\ u.anim.on /\ ~u.dying /\ ~u.inert
                 /\ u.anim.clip = AttackClip(u.kind)
                 /\ u.anim.finished /\ u.anim.cause = "clip")
                    => /\ ~u.attack.on
                       /\ u.animType = IF u.kind = "merged" THEN "BigJumpIdle"
                                       ELSE "MoveSmallJump"

\* ------------------------------------------------------------- C35
\* C35: a hit event fires only when the attacker's AnimationState belongs to
\* the attack clip its ActiveAttack selected and that clip's frame index has
\* reached the hit frame, whatever the order of switch_animation_system and
\* the attack systems.
C35_HitOnAttackClipOnly ==
    [][ \A i \in 1..Len(ev'.hitsFired) :
            LET a == ev'.hitsFired[i].attacker
            IN  /\ world[a].attack.on
                /\ world[a].anim.on
                /\ world[a].anim.clip = AttackClip(world[a].kind)
                /\ world[a].anim.frame_index >= HitFrame ]_vars

\* ------------------------------------------------------------- C36
\* C36: a unit that is Dying or Inert when the hit frame is checked fires no
\* hit event, and no damage or stun is dealt by a unit that is Dying or
\* stunned when its hit is resolved.
C36_NoHitFromFrozenUnit ==
    [][ /\ \A i \in 1..Len(ev'.hitsFired) :
              /\ ~world[ev'.hitsFired[i].attacker].dying
              /\ ~world[ev'.hitsFired[i].attacker].inert
        /\ \A i \in 1..Len(ev'.hitLog) :
              (ev'.hitLog[i].resolved /\ ev'.hitLog[i].notes # <<>>)
                  => ~ev'.hitLog[i].frozen ]_vars

\* ------------------------------------------------------------- C37
\* C37: every unit the spawner creates loses its spawn-time Inert when the
\* pre-game timer expires, whatever the army sizes: no spawned unit keeps
\* it for ever.
C37_SpawnInertEnds ==
    \A e \in 1..MusterEnt :
        (world[e].live /\ world[e].inert) ~> ~world[e].inert

\* ------------------------------------------------------------- C38
\* the units of a team in the muster, and what the spawner still owes it
Mustered(W, team) == Cardinality({e \in 1..MusterEnt : W[e].live /\ W[e].team = team})
OwedPlayer(R) == R.playerNormal + R.playerTanks + R.playerWizards
OwedEnemy(R) == R.enemyNormal + R.enemyTanks

\* C38: the staggered spawner terminates for any requested counts of normal
\* slimes, tanks and wizards: every step creates at most one unit per team
\* and takes it off that team's counters, normal slimes before tanks, so
\* that each team ends with its requested number, and eventually the
\* counters are all 0 and the spawn timer is removed.
C38_SpawnerTerminates ==
    /\ [][ /\ Mustered(world', "Player") - Mustered(world, "Player") \in {0, 1}
           /\ Mustered(world', "Enemy") - Mustered(world, "Enemy") \in {0, 1}
           /\ Mustered(world', "Player") - Mustered(world, "Player")
                 = OwedPlayer(res) - OwedPlayer(res')
           /\ Mustered(world', "Enemy") - Mustered(world, "Enemy")
                 = OwedEnemy(res) - OwedEnemy(res')
           /\ res'.playerTanks < res.playerTanks => res.playerNormal = 0
           /\ res'.enemyTanks < res.enemyTanks => res.enemyNormal = 0 ]_vars
    /\ <>(~res.spawnOn /\ OwedPlayer(res) = 0 /\ OwedEnemy(res) = 0)

\* ------------------------------------------------------------- C39
\* C39: an update of a finished AnimationState changes neither its frame
\* index nor its timer and returns false; an update of an unfinished one
\* moves the frame index forward by at most one, the index of a clip stays
\* below the clip's frame count, update never returns true for a looping
\* clip, and for a non-looping clip it returns true once, with the index on
\* the last frame, where it stays.
C39_UpdateFreezesAndAdvances ==
    /\ [](world.total_frames > 0 => world.frame_index < world.total_frames)
    /\ [](ev.returned => ~world.looping /\ world.finished
                         /\ world.frame_index = world.total_frames - 1)
    /\ [](ev.reports <= 1)
    /\ [][ev'.op = "update" =>
            /\ world.finished => /\ world'.frame_index = world.frame_index
                                 /\ world'.frame_timer = world.frame_timer
                                 /\ ~ev'.returned
            /\ world'.frame_index <= world.frame_index + 1
            /\ ev.reports > 0 => world'.frame_index = world.total_frames - 1]_vars

\* ------------------------------------------------------------- C40
\* C40: a soldier never has more than one AttackInstance child; an
\* AttackInstance is added only to a soldier that had none, so a soldier
\* whose instance is still there starts no attack; an instance is taken away
\* only by cleanup once its cooldown is 0 or below (or with its soldier); and
\* an attack is started only while each team has a soldier with health
\* above 0.
InstanceAdded(e) == Len(world'[e].children) > Len(world[e].children)
InstanceRemoved(e) == Len(world'[e].children) < Len(world[e].children)

C40_OneAttackInstance ==
    /\ [](\A e \in SoldierIds : Len(world[e].children) <= 1)
    /\ [][\A e \in SoldierIds :
            /\ InstanceAdded(e) =>
                  /\ SoldierCur = "attack_system"
                  /\ world[e].children = <<>>
                  /\ \E p \in SoldierIds : world[p].is_player /\ world[p].current > 0
                  /\ \E q \in SoldierIds : ~world[q].is_player /\ world[q].current > 0
            /\ InstanceRemoved(e) =>
                  \/ /\ SoldierCur = "cleanup_finished_attacks"
                     /\ is_finished(world[e].children[1])
                  \/ ~world'[e].live]_vars

\* a soldier is on its second attack, the first one having been cleaned up,
\* while the other soldier, still busy, has just been passed over
C40_Witness ==
    /\ ev.sys = "attack_system"
    /\ \E e \in SoldierIds :
          /\ world[e].started = 2
          /\ Len(world[e].children) = 1
          /\ world[e].children[1].cooldown_remaining
                = AttackDatabase[world[e].children[1].attack_id + 1].cooldown
    /\ \E o \in SoldierIds :
          /\ o \in ev.busy
          /\ world[o].started = 1
          /\ ~is_finished(world[o].children[1])

====
